---- MODULE Spec2Model ----
(***************************************************************************)
(* gopilot: the LSP front-end of src/gopilot.                              *)
(*                                                                         *)
(*   LSPHandlers   (handlers.py)  the document store and the handlers      *)
(*   LSPServer     (server.py)    handle_request: dispatch by method name  *)
(*   StdioTransport, TCPTransport (server.py)  the two drivers             *)
(*                                                                         *)
(* Python values are modelled as follows.  None, and a member that is      *)
(* absent from a JSON object, is the empty tuple None; a present value v   *)
(* is the one-element tuple Some(v).  A str is a sequence of characters,   *)
(* a bytes object a sequence of bytes; URIs, method names and paths, which *)
(* the code only compares, are TLA+ strings.  A dict[str, str] is the      *)
(* sequence of its <<key, value>> items in insertion order.                *)
(***************************************************************************)
EXTENDS Integers, Sequences, FiniteSets, TLC

VARIABLES
    server,       \* the LSPServer instance: its fields, handlers included
    exit_status,  \* None, or Some(the status the process has exited with)
    handled,      \* history: the lifecycle methods handled so far, and "exit"
    last,         \* history: None, or Some(the last handle_request call)
    transport,    \* the driver main started, with its threads' local state
    io            \* the streams and sockets between the driver and its peers

vars == <<server, exit_status, handled, last, transport, io>>

None == <<>>
Some(v) == <<v>>
\* dict.get(key, default) on a member modelled as None / Some(v)
Get(member, default) == IF member = None THEN default ELSE member[1]

(***************************************************************************)
(* dict[str, str]                                                          *)
(***************************************************************************)
DictKeys(d) == {d[i][1] : i \in 1..Len(d)}
DictIndex(d, k) == CHOOSE i \in 1..Len(d) : d[i][1] = k
\* d[k] = v
DictSet(d, k, v) ==
    IF k \in DictKeys(d)
    THEN [d EXCEPT ![DictIndex(d, k)] = <<k, v>>]
    ELSE Append(d, <<k, v>>)
\* del d[k]  (k in d)
DictDel(d, k) == SelectSeq(d, LAMBDA item : item[1] # k)
\* d.get(k)
DictGet(d, k) == IF k \in DictKeys(d) THEN Some(d[DictIndex(d, k)][2]) ELSE None

(***************************************************************************)
(* LSPHandlers: the document store                                         *)
(***************************************************************************)
\* LSPHandlers.__init__
LSPHandlers(git_context, context_lines) ==
    [git_context |-> git_context,
     context_lines |-> context_lines,
     _document_store |-> <<>>]

store_document(handlers, uri, text) ==
    [handlers EXCEPT !._document_store = DictSet(@, uri, text)]

\* mutant: closing a document empties the store
remove_document_all(handlers, uri) ==
    IF uri \in DictKeys(handlers._document_store)
    THEN [handlers EXCEPT !._document_store = <<>>]
    ELSE handlers

remove_document(handlers, uri) ==
    IF uri \in DictKeys(handlers._document_store)
    THEN [handlers EXCEPT !._document_store = DictDel(@, uri)]
    ELSE handlers

get_document(handlers, uri) == DictGet(handlers._document_store, uri)

(***************************************************************************)
(* str helpers                                                             *)
(***************************************************************************)
EmptyStr == <<>>

RECURSIVE Split(_, _)
\* s.split(sep), sep a single character: the pieces of the two halves of s,
\* the last piece of the first half going on in the first of the second
Split(s, sep) ==
    IF s = <<>> THEN <<EmptyStr>>
    ELSE IF Len(s) = 1 THEN (IF s[1] = sep THEN <<EmptyStr, EmptyStr>> ELSE <<s>>)
    ELSE LET half == Len(s) \div 2
             left == Split(SubSeq(s, 1, half), sep)
             right == Split(SubSeq(s, half + 1, Len(s)), sep)
         IN  SubSeq(left, 1, Len(left) - 1)
             \o <<left[Len(left)] \o right[1]>>
             \o SubSeq(right, 2, Len(right))

\* s.removeprefix(prefix), prefix a single token of s
removeprefix(s, prefix) ==
    IF s # <<>> /\ Head(s) = prefix THEN Tail(s) ELSE s

\* c.isalnum() or c == "_"
WordChars ==
    {"a", "b", "d", "e", "l", "r", "s", "t", "u", "x", "y", "_", "1", "2"}
IsWordChar(c) == c \in WordChars

CRLF == "\r\n"
Whitespace == {" ", "\n", CRLF}

\* s.strip()
RECURSIVE lstrip(_)
lstrip(s) ==
    IF s # <<>> /\ Head(s) \in Whitespace THEN lstrip(Tail(s)) ELSE s
RECURSIVE rstrip(_)
rstrip(s) ==
    IF s # <<>> /\ s[Len(s)] \in Whitespace
    THEN rstrip(SubSeq(s, 1, Len(s) - 1)) ELSE s
strip(s) == rstrip(lstrip(s))

\* sep.join(lines)
RECURSIVE Join(_, _)
Join(lines, sep) ==
    IF lines = <<>> THEN <<>>
    ELSE IF Len(lines) = 1 THEN lines[1]
    ELSE LET half == Len(lines) \div 2
         IN  Join(SubSeq(lines, 1, half), sep) \o <<sep>>
             \o Join(SubSeq(lines, half + 1, Len(lines)), sep)

(***************************************************************************)
(* Collaborators: the repository inspector and the agent                   *)
(***************************************************************************)
\* the paths that lie inside a git work tree, and os.getcwd()
GitRepos == {<<"/repo">>, <<"/work">>}
Cwd == <<"/cwd">>

\* GitContext.__init__: repo_path or os.getcwd()
GitContext(repo_path) ==
    [repo_path |-> IF repo_path = None \/ repo_path = Some(EmptyStr)
                   THEN Cwd ELSE repo_path[1]]

\* GitContext.is_git_repo
is_git_repo(git) == git.repo_path \in GitRepos

\* CopilotAgent.__init__
CopilotAgent(git_context) == [git |-> git_context]

AgentActions ==
    <<"query", "review", "commit_message", "explain_diff",
      "summarize_branch", "status">>

\* What the agent's collaborators do during one call is env: agent_raises
\* names the collaborator that raises ("none", "git", "generate"), changes
\* says whether the repository has the diff or the commits the action asks
\* for, agent_text is what the backend's generate returns (None: no
\* result).

\* The action methods process_query, review_changes, suggest_commit_message,
\* explain_diff and summarize_branch, with the params.get of their
\* arguments: the collaborators called, the text returned, and whether an
\* exception left the method.
AgentMethod(action, params, env) ==
    LET Ends(calls, text, raised) ==
            [calls |-> calls, text |-> text, raised |-> raised]
        Generate ==
            IF env.agent_raises = "generate"
            THEN Ends(<<"git", "generate">>, None, TRUE)
            ELSE Ends(<<"git", "generate">>, env.agent_text, FALSE)
        \* the repository is read; without changes the method returns a
        \* fixed text and does not ask the backend
        Git(fixed) ==
            IF env.agent_raises = "git" THEN Ends(<<"git">>, None, TRUE)
            ELSE IF env.changes \/ fixed = None THEN Generate
            ELSE Ends(<<"git">>, fixed, FALSE)
        \* params.get(...)
        WithParams(method) ==
            IF ~params.isDict THEN Ends(<<>>, None, TRUE) ELSE method
    IN  CASE action = "query" -> WithParams(Git(None))
          [] action = "review" ->
                WithParams(Git(Some(<<"No changes detected to review.">>)))
          [] action = "commit_message" ->
                Git(Some(<<"No changes detected.">>))
          [] action = "explain_diff" ->
                WithParams(Git(Some(
                    <<"No differences found between the specified branches.">>)))
          [] action = "summarize_branch" ->
                WithParams(Git(Some(<<"No commits found on branch">>)))

\* mutant: every action's answer is the backend's
handle_agent_request_by_backend(agent, action, params, env) ==
    IF env.agent_text = None
    THEN [error |-> "Failed to generate response (Ollama unreachable?)"]
    ELSE [result |-> env.agent_text[1]]

\* CopilotAgent.handle_agent_request
handle_agent_request(agent, action, params, env) ==
    IF action = "status"
    THEN IF env.agent_raises = "git"
         THEN [error |-> "str(exc)"]
         ELSE [result |-> [branch |-> agent.git.repo_path]]
    ELSE IF action \notin {AgentActions[i] : i \in 1..Len(AgentActions)}
    THEN [error |-> "Unknown agent action"]
    ELSE LET method == AgentMethod(action, params, env)
         IN  IF method.raised THEN [error |-> "str(exc)"]
             ELSE IF method.text = None
             THEN [error |->
                     "Failed to generate response (Ollama unreachable?)"]
             ELSE [result |-> method.text[1]]

\* the collaborators handle_agent_request calls
AgentCollaborators(action, params, env) ==
    IF action = "status" THEN <<"git">>
    ELSE IF action \notin {AgentActions[i] : i \in 1..Len(AgentActions)}
    THEN <<>>
    ELSE AgentMethod(action, params, env).calls

(***************************************************************************)
(* LSPHandlers: completion and hover.  A handler's outcome is the record   *)
(* [result, raised]; raised means that an exception left the handler.      *)
(* env holds what the backend answers: env.completion and env.explanation  *)
(* (None: failure, timeout).                                               *)
(***************************************************************************)
\* position.get("line", 0) / position.get("character", 0)
PositionLine(position) == Get(position.line, 0)
PositionCharacter(position) == Get(position.character, 0)

\* one completion item
CompletionItem(completion) ==
    [kind |-> 1,
     detail |-> "AI Completion (gopilot)",
     insertText |-> completion,
     insertTextFormat |-> 1]

\* the marker of a fenced code block (three backquotes)
Fence == "<fence>"
\* the labels (Completion:|Output:|Result:) matches, ignoring case
Labels == {"Completion:", "Output:", "Result:", "output:", "RESULT:"}

\* \w*: of a label the word is taken and the colon is left
RECURSIVE DropWord(_)
DropWord(s) ==
    IF s # <<>> /\ IsWordChar(Head(s)) THEN DropWord(Tail(s))
    ELSE IF s # <<>> /\ Head(s) \in Labels THEN <<":">> \o Tail(s)
    ELSE s

\* re.sub(r"^<fence>\w*\n?", "", text)
StripOpeningFence(text) ==
    IF text # <<>> /\ Head(text) = Fence
    THEN LET rest == DropWord(Tail(text))
         IN  IF rest # <<>> /\ Head(rest) = "\n" THEN Tail(rest) ELSE rest
    ELSE text

\* re.sub(r"\n?<fence>$", "", text): $ matches at the end and before a newline
\* that ends the text
StripClosingFence(text) ==
    LET n == Len(text)
        \* text without the fence at k and the newline before it
        Before(k) == IF k > 1 /\ text[k - 1] = "\n"
                     THEN SubSeq(text, 1, k - 2)
                     ELSE SubSeq(text, 1, k - 1)
    IN  IF n >= 1 /\ text[n] = Fence THEN Before(n)
        ELSE IF n >= 2 /\ text[n] = "\n" /\ text[n - 1] = Fence
        THEN Append(Before(n - 1), "\n")
        ELSE text

\* re.sub(r"^(Completion:|Output:|Result:)\s*", "", text, flags=re.IGNORECASE)
StripLabel(text) ==
    IF text # <<>> /\ Head(text) \in Labels THEN lstrip(Tail(text)) ELSE text

\* while lines and not lines[0].strip(): lines.pop(0)
RECURSIVE DropLeadingBlank(_)
DropLeadingBlank(lines) ==
    IF lines # <<>> /\ strip(Head(lines)) = EmptyStr
    THEN DropLeadingBlank(Tail(lines)) ELSE lines

\* while lines and not lines[-1].strip(): lines.pop()
RECURSIVE DropTrailingBlank(_)
DropTrailingBlank(lines) ==
    IF lines # <<>> /\ strip(lines[Len(lines)]) = EmptyStr
    THEN DropTrailingBlank(SubSeq(lines, 1, Len(lines) - 1)) ELSE lines

_clean_completion(text) ==
    LET unfenced == StripClosingFence(StripOpeningFence(text))
        lines == Split(StripLabel(unfenced), "\n")
    IN  Join(DropTrailingBlank(DropLeadingBlank(lines)), "\n")

\* mutant: the backend is asked before the document is looked up
handle_completion_backend_first(handlers, uri, position, env) ==
    [result |-> IF env.completion = None \/ env.completion = Some(<<>>)
                   \/ handlers._document_store = <<>>
                THEN <<>>
                ELSE <<[insertText |-> env.completion[1]]>>,
     raised |-> FALSE,
     calls |-> <<"complete_code">>]

\* env.completion is what the backend's complete_code returns (None: a
\* failure or a timeout); calls are the calls made to the collaborators.
\* The prompt the backend is given does not change what the handler
\* returns; of _build_local_scope only the IndexError of lines[line_num]
\* is kept.
handle_completion(handlers, uri, position, env) ==
    LET document == get_document(handlers, uri)
        Outcome(result, raised, calls) ==
            [result |-> result, raised |-> raised, calls |-> calls]
    IN  IF document = None \/ document = Some(EmptyStr)
        THEN Outcome(<<>>, FALSE, <<>>)
        ELSE IF ~position.isDict
        THEN Outcome(<<>>, TRUE, <<>>)
        ELSE IF PositionLine(position) < 0 - Len(Split(document[1], "\n"))
        THEN Outcome(<<>>, TRUE, <<>>)
        ELSE
        LET calls == (IF handlers.git_context # None
                      THEN <<"list_project_files">> ELSE <<>>)
                     \o <<"complete_code">>
        IN  IF env.completion = None \/ env.completion = Some(EmptyStr)
            THEN Outcome(<<>>, FALSE, calls)
            ELSE
            LET completion == _clean_completion(env.completion[1])
            IN  IF strip(completion) = EmptyStr
                THEN Outcome(<<>>, FALSE, calls)
                ELSE Outcome(<<CompletionItem(completion)>>, FALSE, calls)

RECURSIVE WordStart(_, _)
\* while start > 0 and line[start - 1] is a word character: start -= 1
WordStart(line, start) ==
    IF start > 0 /\ IsWordChar(line[start]) THEN WordStart(line, start - 1)
    ELSE start

RECURSIVE WordEnd(_, _)
\* while end < len(line) and line[end] is a word character: end += 1
WordEnd(line, end) ==
    IF end < Len(line) /\ IsWordChar(line[end + 1]) THEN WordEnd(line, end + 1)
    ELSE end

\* mutant: the word starts at the cursor
_get_word_at_position_from_cursor(line, char) ==
    IF line = EmptyStr \/ char < 0 \/ char > Len(line) THEN EmptyStr
    ELSE SubSeq(line, char + 1, WordEnd(line, char))

\* LSPHandlers._get_word_at_position
_get_word_at_position(line, char) ==
    IF line = EmptyStr \/ char < 0 \/ char > Len(line) THEN EmptyStr
    ELSE SubSeq(line, WordStart(line, char) + 1, WordEnd(line, char))

handle_hover(handlers, uri, position, env) ==
    LET document == get_document(handlers, uri)
    IN  IF document = None \/ document = Some(EmptyStr)
        THEN [result |-> None, raised |-> FALSE]
        ELSE IF ~position.isDict
        THEN [result |-> None, raised |-> TRUE]
        ELSE
        LET lines == Split(document[1], "\n")
            line_num == PositionLine(position)
        IN  IF line_num >= Len(lines)
            THEN [result |-> None, raised |-> FALSE]
            ELSE IF line_num < 0 - Len(lines)
            THEN [result |-> None, raised |-> TRUE]
            ELSE
            LET line == lines[(IF line_num < 0 THEN line_num + Len(lines)
                               ELSE line_num) + 1]
                char_num == PositionCharacter(position)
                word == _get_word_at_position(line, char_num)
            IN  IF word = EmptyStr
                THEN [result |-> None, raised |-> FALSE]
                ELSE IF env.explanation = None
                        \/ env.explanation = Some(EmptyStr)
                THEN [result |-> None, raised |-> FALSE]
                ELSE [result |-> Some(
                        [contents |-> [kind |-> "markdown",
                                       value |->
                                           <<"**AI Explanation (gopilot)**",
                                             "\n", "\n">>
                                           \o env.explanation[1]],
                         range |-> [start |-> [line |-> line_num,
                                               character |-> 0],
                                    end |-> [line |-> line_num,
                                             character |-> Len(line)]]]),
                      raised |-> FALSE]

(***************************************************************************)
(* LSPServer.  self is the record of the server's fields; a handler's      *)
(* outcome is [self, result, raised].                                      *)
(***************************************************************************)
DefaultContextLines == 50

\* LSPServer.__init__
LSPServer(repo_path, context_lines) ==
    LET git_context == GitContext(repo_path)
        git_enabled == is_git_repo(git_context)
    IN  [git_context |-> git_context,
         agent |-> IF git_enabled THEN Some(CopilotAgent(git_context))
                   ELSE None,
         handlers |-> LSPHandlers(
             IF git_enabled THEN Some(git_context) ELSE None, context_lines),
         _initialized |-> FALSE,
         _shutdown_requested |-> FALSE]

\* LSPServer._capabilities
_capabilities ==
    [textDocumentSync |-> [openClose |-> TRUE, change |-> 1,
                           save |-> [includeText |-> TRUE]],
     completionProvider |-> [resolveProvider |-> FALSE],
     hoverProvider |-> TRUE]

Returns(self, result) == [self |-> self, result |-> result, raised |-> FALSE]
\* an exception (AttributeError: params is no dict) leaves the handler
Raises(self) == [self |-> self, result |-> None, raised |-> TRUE]

\* params.get("textDocument", {}).get("uri", "")
ParamsUri(params) ==
    IF params.textDocument = None THEN ""
    ELSE Get(params.textDocument[1].uri, "")

_handle_initialize(self, params) ==
    IF ~params.isDict THEN Raises(self)
    ELSE
    LET root_uri == Get(params.rootUri, Get(params.rootPath, EmptyStr))
        repo_path == removeprefix(root_uri, "file://")
        git_context == GitContext(Some(repo_path))
        git_enabled == is_git_repo(git_context)
        rebound ==
            IF root_uri # EmptyStr
            THEN [self EXCEPT
                    !.git_context = git_context,
                    !.handlers = LSPHandlers(
                        IF git_enabled THEN Some(git_context) ELSE None,
                        self.handlers.context_lines),
                    !.agent = IF git_enabled
                              THEN Some(CopilotAgent(git_context))
                              ELSE self.agent]
            ELSE self
    IN  Returns(rebound,
            Some([capabilities |-> _capabilities,
                  serverInfo |->
                      IF rebound.agent # None
                      THEN [name |-> "gopilot", version |-> "0.1.0",
                            agentCapabilities |-> [actions |-> AgentActions]]
                      ELSE [name |-> "gopilot", version |-> "0.1.0"]]))

_handle_initialized(self) ==
    Returns([self EXCEPT !._initialized = TRUE], None)

\* mutant: a second shutdown takes the request back
_handle_shutdown_toggles(self) ==
    Returns([self EXCEPT !._shutdown_requested = ~@], None)

_handle_shutdown(self) ==
    Returns([self EXCEPT !._shutdown_requested = TRUE], None)

\* mutant: the status follows the initialized flag
_handle_exit_by_initialized(self) == IF self._initialized THEN 0 ELSE 1

\* the status _handle_exit passes to sys.exit
_handle_exit(self) == IF self._shutdown_requested THEN 0 ELSE 1

\* mutant: a document is not opened once shutdown was requested
_handle_did_open_unless_shutdown(self, params) ==
    IF ~params.isDict THEN Raises(self)
    ELSE
    LET uri == ParamsUri(params)
        text == IF params.textDocument = None THEN EmptyStr
                ELSE Get(params.textDocument[1].text, EmptyStr)
    IN  IF self._shutdown_requested THEN Returns(self, None)
        ELSE Returns([self EXCEPT !.handlers = store_document(@, uri, text)],
                     None)

_handle_did_open(self, params) ==
    IF ~params.isDict THEN Raises(self)
    ELSE
    LET uri == ParamsUri(params)
        text == IF params.textDocument = None THEN EmptyStr
                ELSE Get(params.textDocument[1].text, EmptyStr)
    IN  Returns([self EXCEPT !.handlers = store_document(@, uri, text)], None)

\* mutant: the first content change is taken
_handle_did_change_first(self, params) ==
    IF ~params.isDict THEN Raises(self)
    ELSE
    LET uri == ParamsUri(params)
        content_changes == Get(params.contentChanges, <<>>)
    IN  IF content_changes # <<>>
        THEN Returns(
                [self EXCEPT !.handlers = store_document(@, uri,
                    Get(content_changes[1].text, EmptyStr))],
                None)
        ELSE Returns(self, None)

_handle_did_change(self, params) ==
    IF ~params.isDict THEN Raises(self)
    ELSE
    LET uri == ParamsUri(params)
        content_changes == Get(params.contentChanges, <<>>)
    IN  IF content_changes # <<>>
        THEN Returns(
                [self EXCEPT !.handlers = store_document(@, uri,
                    Get(content_changes[Len(content_changes)].text,
                        EmptyStr))],
                None)
        ELSE Returns(self, None)

_handle_did_save(self, params) ==
    IF ~params.isDict THEN Raises(self)
    ELSE
    LET uri == ParamsUri(params)
        text == params.text
    IN  IF text # None
        THEN Returns(
                [self EXCEPT !.handlers = store_document(@, uri, text[1])],
                None)
        ELSE Returns(self, None)

_handle_did_close(self, params) ==
    IF ~params.isDict THEN Raises(self)
    ELSE Returns(
            [self EXCEPT !.handlers = remove_document(@, ParamsUri(params))],
            None)

_handle_agent_request(self, params, env) ==
    IF self.agent = None
    THEN Returns(self,
            Some([error |-> "Agent not available (not a git repository)"]))
    ELSE IF ~params.isDict THEN Raises(self)
    ELSE Returns(self,
            Some(handle_agent_request(self.agent[1], Get(params.action, ""),
                                      Get(params.params, [isDict |-> TRUE]),
                                      env)))

\* params.get("position", {})
ParamsPosition(params) ==
    Get(params.position, [isDict |-> TRUE, line |-> None, character |-> None])

_handle_completion(self, params, env) ==
    IF ~params.isDict THEN Raises(self)
    ELSE
    LET h == handle_completion(self.handlers, ParamsUri(params),
                               ParamsPosition(params), env)
    IN  IF h.raised THEN Raises(self)
        ELSE Returns(self, Some([isIncomplete |-> FALSE, items |-> h.result]))

_handle_hover(self, params, env) ==
    IF ~params.isDict THEN Raises(self)
    ELSE
    LET h == handle_hover(self.handlers, ParamsUri(params),
                          ParamsPosition(params), env)
    IN  IF h.raised THEN Raises(self) ELSE Returns(self, h.result)

\* mutant: the response does not echo the id
_create_response_fixed_id(request_id, result) ==
    [jsonrpc |-> "2.0", id |-> 0, result |-> result]

_create_response(request_id, result) ==
    [jsonrpc |-> "2.0", id |-> request_id, result |-> result]

\* mutant: the error is reported as a result
_create_error_response_as_result(request_id, code, message) ==
    [jsonrpc |-> "2.0", id |-> request_id,
     result |-> None,
     error |-> [code |-> code, message |-> message]]

_create_error_response(request_id, code, message) ==
    [jsonrpc |-> "2.0", id |-> request_id,
     error |-> [code |-> code, message |-> message]]

MethodNotFound == -32601

\* a handle_request that answers a message without an id as if its id were 0
ResponseFor_any_message(request_id, result) ==
    Some(_create_response(Get(request_id, 0), result))
\* if request_id is not None: return self._create_response(request_id, result)
\* return None
ResponseFor(request_id, result) ==
    IF request_id # None
    THEN Some(_create_response(request_id[1], result))
    ELSE None

(***************************************************************************)
(* LSPServer.handle_request.  The outcome is [self, response, outcome,     *)
(* exit_status]: response is None or Some(the response dict); outcome is   *)
(* "return", "raise" (an exception leaves handle_request) or "exit"        *)
(* (SystemExit raised by sys.exit(exit_status[1])).                        *)
(***************************************************************************)
handle_request(self, request, env) ==
    LET method == request.method
        params == Get(request.params,
                      [isDict |-> TRUE, textDocument |-> None,
                       contentChanges |-> None, text |-> None,
                       position |-> None, rootUri |-> None,
                       rootPath |-> None, action |-> None, params |-> None])
        request_id == request.id
        Out(self2, response, outcome) ==
            [self |-> self2, response |-> response, outcome |-> outcome,
             exit_status |-> None]
        \* result = handler(); if request_id is not None: response
        Request(h) ==
            IF h.raised THEN Out(h.self, None, "raise")
            ELSE Out(h.self, ResponseFor(request_id, h.result), "return")
        \* handler(); return None
        Notification(h) ==
            IF h.raised THEN Out(h.self, None, "raise")
            ELSE Out(h.self, None, "return")
    IN  CASE method = "initialize" ->
                Request(_handle_initialize(self, params))
          [] method = "initialized" ->
                Notification(_handle_initialized(self))
          [] method = "shutdown" ->
                Request(_handle_shutdown(self))
          [] method = "exit" ->
                [self |-> self, response |-> None, outcome |-> "exit",
                 exit_status |-> Some(_handle_exit(self))]
          [] method = "textDocument/didOpen" ->
                Notification(_handle_did_open(self, params))
          [] method = "textDocument/didChange" ->
                Notification(_handle_did_change(self, params))
          [] method = "textDocument/didSave" ->
                Notification(_handle_did_save(self, params))
          [] method = "textDocument/didClose" ->
                Notification(_handle_did_close(self, params))
          [] method = "textDocument/completion" ->
                Request(_handle_completion(self, params, env))
          [] method = "textDocument/hover" ->
                Request(_handle_hover(self, params, env))
          [] method = "gopilot/agent" ->
                Request(_handle_agent_request(self, params, env))
          [] method = "$/cancelRequest" ->
                Out(self, None, "return")
          [] OTHER ->
                IF request_id # None
                THEN Out(self,
                         Some(_create_error_response(
                             request_id[1], MethodNotFound,
                             <<"Method not found: ", method>>)),
                         "return")
                ELSE Out(self, None, "return")

(***************************************************************************)
(* The messages a peer sends.  A request is [method, id, params]: method   *)
(* "" stands for a message without a method member, id None for a message *)
(* without an id, params None for a message without params.                *)
(***************************************************************************)
URIs == {"file:///a.py", "file:///b.js"}
Ids == {None, Some(0)}
MoreIds == Ids \cup {Some(7)}

EmptyParams ==
    [isDict |-> TRUE, textDocument |-> None, contentChanges |-> None,
     text |-> None, position |-> None, rootUri |-> None, rootPath |-> None,
     action |-> None, params |-> None]
\* params that is no JSON object (a list, a number, null)
NotADict == [EmptyParams EXCEPT !.isDict = FALSE]

\* The messages of one method: without params under each of ids, and with
\* each of paramSet both as a request and as a notification.
Requests(method, ids, paramSet) ==
    {[method |-> method, id |-> i, params |-> None] : i \in ids}
    \cup {[method |-> method, id |-> i, params |-> Some(p)] :
            i \in Ids, p \in paramSet}

TextDocument(uri, text) == Some([uri |-> Some(uri), text |-> text])
NotAPosition == Some([isDict |-> FALSE, line |-> None, character |-> None])
Position(line, character) ==
    Some([isDict |-> TRUE, line |-> Some(line), character |-> Some(character)])

InitializeRequests ==
    Requests("initialize", Ids,
        {NotADict,
         [EmptyParams EXCEPT !.rootUri = Some(EmptyStr)],
         [EmptyParams EXCEPT !.rootUri = Some(<<"file://", "/repo">>)],
         [EmptyParams EXCEPT !.rootPath = Some(<<"/repo">>)]})
InitializedRequests == Requests("initialized", Ids, {})
ShutdownRequests == Requests("shutdown", MoreIds, {})
ExitRequests == Requests("exit", Ids, {})
DidOpenRequests ==
    Requests("textDocument/didOpen", {},
        {NotADict}
        \cup {[EmptyParams EXCEPT
                !.textDocument = TextDocument(u, Some(<<"x">>))] :
                u \in URIs})
DidChangeRequests ==
    Requests("textDocument/didChange", {},
        {NotADict,
         [EmptyParams EXCEPT
            !.textDocument = TextDocument("file:///a.py", None),
            !.contentChanges = Some(<<[text |-> Some(<<"x">>)]>>)]})
DidSaveRequests ==
    Requests("textDocument/didSave", {},
        {NotADict,
         [EmptyParams EXCEPT
            !.textDocument = TextDocument("file:///a.py", None),
            !.text = Some(<<"x">>)]})
DidCloseRequests ==
    Requests("textDocument/didClose", {},
        {NotADict}
        \cup {[EmptyParams EXCEPT !.textDocument = TextDocument(u, None)] :
                u \in URIs})
CompletionRequests ==
    Requests("textDocument/completion", {},
        {NotADict}
        \cup {[EmptyParams EXCEPT
                !.textDocument = TextDocument("file:///a.py", None),
                !.position = pos] :
                pos \in {None, NotAPosition}})
HoverRequests ==
    Requests("textDocument/hover", {},
        {NotADict}
        \cup {[EmptyParams EXCEPT
                !.textDocument = TextDocument("file:///a.py", None),
                !.position = pos] :
                pos \in {None, NotAPosition, Position(0, 1)}})
AgentRequests ==
    Requests("gopilot/agent", {},
        {NotADict}
        \cup {[EmptyParams EXCEPT !.action = Some(a)] :
                a \in {"status", "query", "deploy"}})
CancelRequests == Requests("$/cancelRequest", Ids, {})
UnknownMethods == {"foo/bar", ""}
UnknownRequests == UNION {Requests(m, MoreIds, {}) : m \in UnknownMethods}

\* what the collaborators answer during one call
NoEnv ==
    [completion |-> None, explanation |-> None, agent_text |-> None,
     agent_raises |-> "none", changes |-> TRUE]
BackendAnswers == {None, Some(<<"y">>)}
AgentAnswers ==
    {[NoEnv EXCEPT !.agent_text = answer] : answer \in BackendAnswers}
    \cup {[NoEnv EXCEPT !.agent_raises = who] : who \in {"git", "generate"}}
    \cup {[NoEnv EXCEPT !.changes = FALSE]}

(***************************************************************************)
(* Spec: one LSPServer and a caller that passes it one message after the   *)
(* other (server.handle_request(message)), until sys.exit.                 *)
(***************************************************************************)
LifecycleMethods == {"initialize", "initialized", "shutdown"}

\* --repo-path
ConfiguredRepoPaths == {None, Some(<<"/repo">>)}

\* no driver: the caller itself passes the messages to handle_request
NoTransport == [mode |-> "none"]
NoIO == [mode |-> "none"]

\* main: LSPServer(...)
InitServer ==
    /\ \E repo_path \in ConfiguredRepoPaths :
           server = LSPServer(repo_path, DefaultContextLines)
    /\ exit_status = None
    /\ handled = {}
    /\ last = None

Init ==
    /\ InitServer
    /\ transport = NoTransport
    /\ io = NoIO

\* the history after handle_request(request) has ended as r
Handled(request, r) ==
    IF \/ r.outcome = "return" /\ request.method \in LifecycleMethods
       \/ r.outcome = "exit"
    THEN handled \cup {request.method} ELSE handled
LastCall(request, r) ==
    Some([request |-> request, response |-> r.response, outcome |-> r.outcome])

\* server.handle_request(request), the collaborators answering env
Call(request, env) ==
    /\ exit_status = None
    /\ transport.mode = "none"
    /\ LET r == handle_request(server, request, env)
       IN  /\ server' = r.self
           /\ exit_status' = r.exit_status
           /\ handled' = Handled(request, r)
           /\ last' = LastCall(request, r)
    /\ UNCHANGED <<transport, io>>

Initialize == \E request \in InitializeRequests : Call(request, NoEnv)
Initialized == \E request \in InitializedRequests : Call(request, NoEnv)
Shutdown == \E request \in ShutdownRequests : Call(request, NoEnv)
Exit == \E request \in ExitRequests : Call(request, NoEnv)
DidOpen == \E request \in DidOpenRequests : Call(request, NoEnv)
DidChange == \E request \in DidChangeRequests : Call(request, NoEnv)
DidSave == \E request \in DidSaveRequests : Call(request, NoEnv)
DidClose == \E request \in DidCloseRequests : Call(request, NoEnv)
Completion ==
    \E request \in CompletionRequests, answer \in BackendAnswers :
        Call(request, [NoEnv EXCEPT !.completion = answer])
Hover ==
    \E request \in HoverRequests, answer \in BackendAnswers :
        Call(request, [NoEnv EXCEPT !.explanation = answer])
Agent ==
    \E request \in AgentRequests, env \in AgentAnswers : Call(request, env)
CancelRequest == \E request \in CancelRequests : Call(request, NoEnv)
UnknownMethod == \E request \in UnknownRequests : Call(request, NoEnv)

Next ==
    \/ Initialize
    \/ Initialized
    \/ Shutdown
    \/ Exit
    \/ DidOpen
    \/ DidChange
    \/ DidSave
    \/ DidClose
    \/ Completion
    \/ Hover
    \/ Agent
    \/ CancelRequest
    \/ UnknownMethod

Spec == Init /\ [][Next]_vars

(***************************************************************************)
(* SpecDocs: the same caller, sending document notifications only, over    *)
(* more texts and content-change lists.                                    *)
(***************************************************************************)
Texts == {<<"x">>, <<"y">>}
OptionalTexts == {None} \cup {Some(t) : t \in Texts}
Changes == {[text |-> t] : t \in OptionalTexts}
ContentChanges ==
    {None, Some(<<>>)}
    \cup {Some(<<c>>) : c \in Changes}
    \cup {Some(<<c, d>>) : c \in Changes, d \in Changes}

DocsDidOpenRequests ==
    Requests("textDocument/didOpen", {},
        {[EmptyParams EXCEPT !.textDocument = TextDocument(u, t)] :
            u \in URIs, t \in OptionalTexts})
DocsDidChangeRequests ==
    Requests("textDocument/didChange", {},
        {[EmptyParams EXCEPT !.textDocument = TextDocument(u, None),
                             !.contentChanges = cc] :
            u \in URIs, cc \in ContentChanges})
DocsDidSaveRequests ==
    Requests("textDocument/didSave", {},
        {[EmptyParams EXCEPT !.textDocument = TextDocument(u, None),
                             !.text = t] :
            u \in URIs, t \in OptionalTexts \cup {Some(EmptyStr)}})
DocsDidCloseRequests ==
    Requests("textDocument/didClose", {},
        {[EmptyParams EXCEPT !.textDocument = TextDocument(u, None)] :
            u \in URIs})

DocsDidOpen == \E request \in DocsDidOpenRequests : Call(request, NoEnv)
DocsDidChange == \E request \in DocsDidChangeRequests : Call(request, NoEnv)
DocsDidSave == \E request \in DocsDidSaveRequests : Call(request, NoEnv)
DocsDidClose == \E request \in DocsDidCloseRequests : Call(request, NoEnv)

NextDocs ==
    \/ DocsDidOpen
    \/ DocsDidChange
    \/ DocsDidSave
    \/ DocsDidClose

SpecDocs == Init /\ [][NextDocs]_vars

(***************************************************************************)
(* Framing.  A stream holds a sequence of symbols: each symbol stands for  *)
(* a run of bytes the code treats as a unit ("\r\n", a header name, a      *)
(* digit, a JSON token), and a body's Content-Length counts its symbols.   *)
(***************************************************************************)
DigitSymbols == <<"0", "1", "2", "3", "4", "5", "6", "7", "8", "9">>

\* s.lower()
lower(s) ==
    [i \in 1..Len(s) |->
        IF s[i] = "Content-Length" THEN "content-length" ELSE s[i]]

\* sep in s
Contains(s, sep) == \E i \in 1..Len(s) : s[i] = sep

\* key, value = line.split(":", 1)  (":" in line)
SplitOnce(line, sep) ==
    LET i == CHOOSE j \in 1..Len(line) :
                 line[j] = sep /\ \A k \in 1..(j - 1) : line[k] # sep
    IN  [key |-> SubSeq(line, 1, i - 1),
         value |-> SubSeq(line, i + 1, Len(line))]

\* the value of a digit symbol
DigitValue(c) == (CHOOSE i \in 1..10 : DigitSymbols[i] = c) - 1
IsDigit(c) == \E i \in 1..10 : DigitSymbols[i] = c
RECURSIVE Decimal(_)
Decimal(s) ==
    IF s = <<>> THEN 0
    ELSE 10 * Decimal(SubSeq(s, 1, Len(s) - 1)) + DigitValue(s[Len(s)])
\* int(value): None stands for ValueError
int(value) ==
    IF value # <<>> /\ \A i \in 1..Len(value) : IsDigit(value[i])
    THEN Some(Decimal(value)) ELSE None

\* headers[key.strip().lower()] = value.strip(), for a line with ":"
HeaderLine(headers, line) ==
    IF Contains(line, ":")
    THEN LET kv == SplitOnce(line, ":")
         IN  DictSet(headers, lower(strip(kv.key)), strip(kv.value))
    ELSE headers
RECURSIVE HeaderLines(_, _)
HeaderLines(headers, lines) ==
    IF lines = <<>> THEN headers
    ELSE HeaderLines(HeaderLine(headers, Head(lines)), Tail(lines))

\* int(headers.get("content-length", 0)): None stands for ValueError
ContentLength(headers) ==
    LET value == DictGet(headers, <<"content-length">>)
    IN  IF value = None THEN Some(0) ELSE int(value[1])

(***************************************************************************)
(* JSON.  A JSON object is the dict of its members in insertion order,     *)
(* each value being the symbol of its JSON text.  Its text is              *)
(*     {  key : value  ,  key : value  }                                     *)
(* one symbol per key, value and punctuation mark.                         *)
(***************************************************************************)
JsonPunctuation == {"{", "}", ":", ","}

\* the members after the first "{" or a ","
RECURSIVE JsonMembers(_)
JsonMembers(d) ==
    IF d = <<>> THEN <<>>
    ELSE <<d[1][1], ":", d[1][2]>>
         \o (IF Len(d) > 1 THEN <<",">> \o JsonMembers(Tail(d)) ELSE <<>>)

\* json.dumps(message)
json_dumps(message) == <<"{">> \o JsonMembers(message) \o <<"}">>

\* the text after "{" or ",": a member, then "}" or "," and more members;
\* a key that comes twice keeps its last value
RECURSIVE ParseMembers(_, _)
ParseMembers(text, d) ==
    IF /\ Len(text) >= 4
       /\ text[1] \notin JsonPunctuation
       /\ text[2] = ":"
       /\ text[3] \notin JsonPunctuation
    THEN LET d2 == DictSet(d, text[1], text[3])
         IN  IF text[4] = "}" /\ Len(text) = 4
             THEN [raised |-> FALSE, value |-> d2]
             ELSE IF text[4] = ","
             THEN ParseMembers(SubSeq(text, 5, Len(text)), d2)
             ELSE [raised |-> TRUE, value |-> <<>>]
    ELSE [raised |-> TRUE, value |-> <<>>]

\* json.loads(content): [raised, value]; raised stands for JSONDecodeError
json_loads(content) ==
    IF content = <<"{", "}">> THEN [raised |-> FALSE, value |-> <<>>]
    ELSE IF content # <<>> /\ Head(content) = "{"
    THEN ParseMembers(Tail(content), <<>>)
    ELSE [raised |-> TRUE, value |-> <<>>]

\* the JSON texts of the ids and params the peers use, with their values
JsonIds == <<<<"0", 0>>, <<"7", 7>>>>
JsonParams ==
    <<<<"[]", NotADict>>,
      <<"{}", EmptyParams>>,
      <<"{a.py,x}",
        [EmptyParams EXCEPT
            !.textDocument = TextDocument("file:///a.py", Some(<<"x">>))]>>,
      <<"{a.py}",
        [EmptyParams EXCEPT
            !.textDocument = TextDocument("file:///a.py", None)]>>,
      <<"{status}", [EmptyParams EXCEPT !.action = Some("status")]>>>>

\* the symbol a table gives a value, and the value it gives a symbol
SymbolOf(table, value) == table[CHOOSE i \in 1..Len(table) : table[i][2] = value][1]
ValueOf(table, symbol) == DictGet(table, symbol)

\* the JSON object of a request: absent members are left out
JsonObject(request) ==
    (IF request.method # "" THEN <<<<"method", request.method>>>> ELSE <<>>)
    \o (IF request.id # None
        THEN <<<<"id", SymbolOf(JsonIds, request.id[1])>>>> ELSE <<>>)
    \o (IF request.params # None
        THEN <<<<"params", SymbolOf(JsonParams, request.params[1])>>>>
        ELSE <<>>)

\* request.get("method", ""), request.get("params", {}), request.get("id")
RequestOf(message) ==
    LET id == DictGet(message, "id")
        params == DictGet(message, "params")
    IN  [method |-> Get(DictGet(message, "method"), ""),
         id |-> IF id = None THEN None ELSE ValueOf(JsonIds, id[1]),
         params |-> IF params = None THEN None
                    ELSE ValueOf(JsonParams, params[1])]

\* str(n)
RECURSIVE str(_)
str(n) ==
    IF n < 10 THEN <<DigitSymbols[n + 1]>>
    ELSE str(n \div 10) \o <<DigitSymbols[(n % 10) + 1]>>

\* f"Content-Length: {len(content_bytes)}\r\n\r\n", and header + content
ContentLengthHeader(n) ==
    <<"Content-Length", ":", " ">> \o str(n) \o <<CRLF, CRLF>>
Frame(content) == ContentLengthHeader(Len(content)) \o content

(***************************************************************************)
(* UTF-8.  Every symbol is one character and one byte, but for the         *)
(* character "e-acute", whose encoding is the two bytes "0xC3" "0xA9".     *)
(***************************************************************************)
\* data.decode("utf-8"): [raised, value]; raised stands for
\* UnicodeDecodeError
decode(data) ==
    LET malformed ==
            \E i \in 1..Len(data) :
                \/ data[i] = "0xC3" /\ (i = Len(data) \/ data[i + 1] # "0xA9")
                \/ data[i] = "0xA9" /\ (i = 1 \/ data[i - 1] # "0xC3")
        leading == SelectSeq(data, LAMBDA byte : byte # "0xA9")
    IN  [raised |-> malformed,
         value |-> IF malformed THEN <<>>
                   ELSE [i \in 1..Len(leading) |->
                            IF leading[i] = "0xC3" THEN "e-acute"
                            ELSE leading[i]]]

(***************************************************************************)
(* TCPTransport._parse_message: [message, buffer]                          *)
(***************************************************************************)
\* buffer.find(b"\r\n\r\n"), counted in symbols from 0
find(buffer) ==
    LET hits == {i \in 1..(Len(buffer) - 1) :
                    buffer[i] = CRLF /\ buffer[i + 1] = CRLF}
    IN  IF hits = {} THEN -1
        ELSE (CHOOSE i \in hits : \A j \in hits : i <= j) - 1

_parse_message(buffer) ==
    LET header_end == find(buffer)
        nothing == [message |-> None, buffer |-> buffer]
    IN  IF header_end = -1 THEN nothing
        ELSE
        LET headers_raw == decode(SubSeq(buffer, 1, header_end))
            headers == HeaderLines(<<>>, Split(headers_raw.value, CRLF))
            content_length == ContentLength(headers)
        IN  IF headers_raw.raised THEN nothing          \* except Exception
            ELSE IF content_length = None THEN nothing  \* except Exception
            ELSE IF content_length[1] = 0 THEN nothing
            ELSE
            LET content_start == header_end + 2
                content_end == content_start + content_length[1]
            IN  IF Len(buffer) < content_end THEN nothing
                ELSE
                LET content ==
                        decode(SubSeq(buffer, content_start + 1, content_end))
                    message == json_loads(content.value)
                IN  IF content.raised THEN nothing      \* except Exception
                    ELSE IF message.raised THEN nothing \* except Exception
                    ELSE [message |-> Some(message.value),
                          buffer |-> SubSeq(buffer, content_end + 1, Len(buffer))]

(***************************************************************************)
(* StdioTransport._read_message on the symbols stdin holds, open telling   *)
(* whether the peer may still write: [blocked, message, stdin].  blocked   *)
(* means a read waits for more input.                                      *)
(***************************************************************************)
\* sys.stdin.readline(): [blocked, line, stdin]
readline(stdin, open) ==
    LET ends == {i \in 1..Len(stdin) : stdin[i] = CRLF}
    IN  IF ends # {}
        THEN LET i == CHOOSE j \in ends : \A k \in ends : j <= k
             IN  [blocked |-> FALSE, line |-> SubSeq(stdin, 1, i),
                  stdin |-> SubSeq(stdin, i + 1, Len(stdin))]
        ELSE [blocked |-> open, line |-> stdin, stdin |-> <<>>]

\* the header loop: [blocked, eof, headers, stdin]
RECURSIVE ReadHeaders(_, _, _)
ReadHeaders(headers, stdin, open) ==
    LET rd == readline(stdin, open)
        line == strip(rd.line)
    IN  IF rd.blocked
        THEN [blocked |-> TRUE, eof |-> FALSE, headers |-> headers, stdin |-> stdin]
        ELSE IF rd.line = <<>>
        THEN [blocked |-> FALSE, eof |-> TRUE, headers |-> headers,
              stdin |-> rd.stdin]
        ELSE IF line = <<>>
        THEN [blocked |-> FALSE, eof |-> FALSE, headers |-> headers,
              stdin |-> rd.stdin]
        ELSE ReadHeaders(HeaderLine(headers, line), rd.stdin, open)

_read_message(stdin, open) ==
    LET h == ReadHeaders(<<>>, stdin, open)
        content_length == ContentLength(h.headers)
        Result(blocked, message, rest) ==
            [blocked |-> blocked, message |-> message, stdin |-> rest]
    IN  IF h.blocked THEN Result(TRUE, None, stdin)
        ELSE IF h.eof THEN Result(FALSE, None, h.stdin)
        ELSE IF content_length = None THEN Result(FALSE, None, h.stdin)
        ELSE IF content_length[1] = 0 THEN Result(FALSE, None, h.stdin)
        ELSE IF Len(h.stdin) < content_length[1] /\ open
        THEN Result(TRUE, None, stdin)
        ELSE
        LET n == IF Len(h.stdin) < content_length[1]
                 THEN Len(h.stdin) ELSE content_length[1]
            content == SubSeq(h.stdin, 1, n)
            rest == SubSeq(h.stdin, n + 1, Len(h.stdin))
            message == json_loads(content)
        IN  IF content = <<>> THEN Result(FALSE, None, rest)
            ELSE IF message.raised THEN Result(FALSE, None, rest)
            ELSE Result(FALSE, Some(message.value), rest)

(***************************************************************************)
(* SpecDrivers: main starts one of the two drivers, and the peers write    *)
(* whole frames.  A response the driver writes is recorded as the message  *)
(* itself, in the order written.                                           *)
(***************************************************************************)
MaxFrames == 2      \* frames the peers write in one run
MaxConns == 2       \* connections the peers open in one run
RecvSize == 4096    \* client_socket.recv(4096)

Conns == 1..MaxConns

\* StdioTransport.__init__, and the process's stdin and stdout
StdioTransport ==
    [mode |-> "stdio", _running |-> FALSE, loop |-> "created", dispatched |-> 0]
StdioIO ==
    [mode |-> "stdio", stdin |-> <<>>, stdin_open |-> TRUE, stdout |-> <<>>,
     frames |-> 0]

\* TCPTransport.__init__, the workers start creates and the sockets
NoWorker == [pc |-> "none", buffer |-> <<>>, dispatched |-> 0]
TCPTransport ==
    [mode |-> "tcp", _running |-> FALSE, listening |-> FALSE,
     workers |-> [c \in Conns |-> NoWorker]]
\* in_flight (history): the frames the peer has sent whose message has not
\* been dispatched
NoSocket ==
    [state |-> "idle", inbox |-> <<>>, peer_open |-> TRUE, sent |-> <<>>,
     in_flight |-> <<>>]
TCPIO == [mode |-> "tcp", sockets |-> [c \in Conns |-> NoSocket], frames |-> 0]

\* the messages the peers send: every method as a notification, and
\* requests that are answered, that raise and that are unknown
DriverMessages ==
    {[method |-> m, id |-> None, params |-> None] :
        m \in {"initialize", "initialized", "shutdown", "exit",
               "textDocument/didSave", "$/cancelRequest", "foo/bar"}}
    \cup {[method |-> "textDocument/didOpen", id |-> None,
           params |-> ValueOf(JsonParams, "{a.py,x}")],
          [method |-> "textDocument/didChange", id |-> None,
           params |-> Some(NotADict)],
          [method |-> "textDocument/didClose", id |-> None,
           params |-> ValueOf(JsonParams, "{a.py}")],
          [method |-> "textDocument/completion", id |-> None,
           params |-> Some(NotADict)],
          [method |-> "textDocument/hover", id |-> None,
           params |-> ValueOf(JsonParams, "{a.py}")],
          [method |-> "gopilot/agent", id |-> None,
           params |-> ValueOf(JsonParams, "{status}")],
          [method |-> "shutdown", id |-> Some(7), params |-> None],
          [method |-> "textDocument/completion", id |-> Some(0),
           params |-> Some(NotADict)],
          [method |-> "foo/bar", id |-> Some(0), params |-> None]}

\* frames _parse_message and _read_message give no message for
BadJsonFrame == ContentLengthHeader(4) \o <<"{", "method", ":", "exit">>
NoLengthFrame ==
    <<"Content-Type", ":", " ", "x", CRLF, CRLF>>
    \o json_dumps(JsonObject(
            [method |-> "shutdown", id |-> Some(7), params |-> None]))
BadLengthFrame ==
    <<"Content-Length", ":", " ", "x", CRLF, CRLF>>
    \o json_dumps(JsonObject(
            [method |-> "shutdown", id |-> Some(7), params |-> None]))
ZeroLengthFrame == ContentLengthHeader(0)
MalformedFrames == {BadJsonFrame, NoLengthFrame, BadLengthFrame, ZeroLengthFrame}

Frames ==
    {Frame(json_dumps(JsonObject(m))) : m \in DriverMessages}
    \cup MalformedFrames

\* main: --mode stdio | tcp
InitDrivers ==
    /\ InitServer
    /\ \/ transport = StdioTransport /\ io = StdioIO
       \/ transport = TCPTransport /\ io = TCPIO

\* a response written ahead of the responses already written
WriteResponse_first(out, response) ==
    IF response # None THEN <<response[1]>> \o out ELSE out
\* if response: self._write_message(response) / self._send_message(...):
\* the response goes out after everything written before
WriteResponse(out, response) ==
    IF response # None THEN Append(out, response[1]) ELSE out

\* the editor writes a frame to the server's stdin
StdinWrite(frame) ==
    /\ exit_status = None
    /\ io.mode = "stdio"
    /\ io.stdin_open
    /\ io.frames < MaxFrames
    /\ io' = [io EXCEPT !.stdin = @ \o frame, !.frames = @ + 1]
    /\ UNCHANGED <<server, exit_status, handled, last, transport>>

\* the editor closes the server's stdin
StdinClose ==
    /\ exit_status = None
    /\ io.mode = "stdio"
    /\ io.stdin_open
    /\ io' = [io EXCEPT !.stdin_open = FALSE]
    /\ UNCHANGED <<server, exit_status, handled, last, transport>>

\* StdioTransport.start up to the loop
StdioStart ==
    /\ exit_status = None
    /\ transport.mode = "stdio"
    /\ transport.loop = "created"
    /\ transport' = [transport EXCEPT !._running = TRUE, !.loop = "running"]
    /\ UNCHANGED <<server, exit_status, handled, last, io>>

\* StdioTransport.start: one turn of the loop
StdioLoop ==
    /\ exit_status = None
    /\ transport.mode = "stdio"
    /\ transport.loop = "running"
    /\ transport._running
    /\ LET rd == _read_message(io.stdin, io.stdin_open)
       IN  /\ ~rd.blocked
           /\ IF rd.message = None
              THEN \* break
                   /\ transport' = [transport EXCEPT !.loop = "ended"]
                   /\ io' = [io EXCEPT !.stdin = rd.stdin]
                   /\ UNCHANGED <<server, exit_status, handled, last>>
              ELSE LET message == RequestOf(rd.message[1])
                       r == handle_request(server, message, NoEnv)
                   IN  /\ server' = r.self
                       \* SystemExit leaves start and main
                       /\ exit_status' = r.exit_status
                       /\ handled' = Handled(message, r)
                       /\ last' = LastCall(message, r)
                       /\ transport' = [transport EXCEPT !.dispatched = @ + 1]
                       \* _write_message(response); an Exception is logged
                       /\ io' = [io EXCEPT
                                   !.stdin = rd.stdin,
                                   !.stdout = WriteResponse(@, r.response)]

\* TCPTransport.start up to the loop: bind and listen
TCPStart ==
    /\ exit_status = None
    /\ transport.mode = "tcp"
    /\ ~transport.listening
    /\ transport' = [transport EXCEPT !._running = TRUE, !.listening = TRUE]
    /\ UNCHANGED <<server, exit_status, handled, last, io>>

\* a peer connects; connections are numbered in the order they are made
PeerConnect(c) ==
    /\ exit_status = None
    /\ transport.mode = "tcp"
    /\ transport.listening
    /\ io.sockets[c].state = "idle"
    /\ \A d \in Conns : d < c => io.sockets[d].state # "idle"
    /\ io' = [io EXCEPT !.sockets[c].state = "backlog"]
    /\ UNCHANGED <<server, exit_status, handled, last, transport>>

\* a peer sends a frame on its connection
PeerSend(c, frame) ==
    /\ exit_status = None
    /\ io.mode = "tcp"
    /\ io.sockets[c].state \in {"backlog", "open"}
    /\ io.sockets[c].peer_open
    /\ io.frames < MaxFrames
    /\ io' = [io EXCEPT !.sockets[c].inbox = @ \o frame,
                        !.sockets[c].in_flight = Append(@, frame),
                        !.frames = @ + 1]
    /\ UNCHANGED <<server, exit_status, handled, last, transport>>

\* a peer closes its side of the connection
PeerClose(c) ==
    /\ exit_status = None
    /\ io.mode = "tcp"
    /\ io.sockets[c].state \in {"backlog", "open"}
    /\ io.sockets[c].peer_open
    /\ io' = [io EXCEPT !.sockets[c].peer_open = FALSE]
    /\ UNCHANGED <<server, exit_status, handled, last, transport>>

\* TCPTransport.start: one turn of the accept loop
Accept(c) ==
    /\ exit_status = None
    /\ transport.mode = "tcp"
    /\ transport.listening
    /\ transport._running
    /\ io.sockets[c].state = "backlog"
    /\ \A d \in Conns : d < c => io.sockets[d].state # "backlog"
    /\ io' = [io EXCEPT !.sockets[c].state = "open"]
    \* threading.Thread(target=self._handle_client).start(); buffer = b""
    /\ transport' = [transport EXCEPT !.workers[c] = [NoWorker EXCEPT !.pc = "recv"]]
    /\ UNCHANGED <<server, exit_status, handled, last>>

\* a _handle_client whose buffer is one buffer of the transport, the bytes
\* of every connection going into it
Recv_into_shared_buffer(c, n) ==
    /\ exit_status = None
    /\ transport.mode = "tcp"
    /\ transport.workers[c].pc = "recv"
    /\ transport._running
    /\ LET inbox == io.sockets[c].inbox
           data == SubSeq(inbox, 1, n)
       IN  /\ n <= Len(inbox)
           /\ n <= RecvSize
           /\ n > 0 \/ (inbox = <<>> /\ ~io.sockets[c].peer_open)
           /\ IF data = <<>>
              THEN /\ transport' = [transport EXCEPT !.workers[c].pc = "ended"]
                   /\ io' = [io EXCEPT !.sockets[c].state = "closed"]
              ELSE /\ transport' = [transport EXCEPT
                                      !.workers[1].buffer = @ \o data,
                                      !.workers[c].pc = "parse"]
                   /\ io' = [io EXCEPT !.sockets[c].inbox =
                                          SubSeq(inbox, n + 1, Len(inbox))]
    /\ UNCHANGED <<server, exit_status, handled, last>>

\* _handle_client: data = client_socket.recv(4096), which gives the first n
\* of the bytes that have arrived, and buffer += data
Recv(c, n) ==
    /\ exit_status = None
    /\ transport.mode = "tcp"
    /\ transport.workers[c].pc = "recv"
    /\ transport._running
    /\ LET inbox == io.sockets[c].inbox
           data == SubSeq(inbox, 1, n)
       IN  /\ n <= Len(inbox)
           /\ n <= RecvSize
           /\ n > 0 \/ (inbox = <<>> /\ ~io.sockets[c].peer_open)
           /\ IF data = <<>>
              THEN \* break; finally: client_socket.close()
                   /\ transport' = [transport EXCEPT !.workers[c].pc = "ended"]
                   /\ io' = [io EXCEPT !.sockets[c].state = "closed"]
              ELSE /\ transport' = [transport EXCEPT
                                      !.workers[c].buffer = @ \o data,
                                      !.workers[c].pc = "parse"]
                   /\ io' = [io EXCEPT !.sockets[c].inbox =
                                          SubSeq(inbox, n + 1, Len(inbox))]
    /\ UNCHANGED <<server, exit_status, handled, last>>

\* recv gives all the bytes that have arrived, up to 4096
WorkerRecv(c) ==
    LET available == Len(io.sockets[c].inbox)
    IN  Recv(c, IF available < RecvSize THEN available ELSE RecvSize)

\* _handle_client: one turn of the inner loop
WorkerParse(c) ==
    /\ exit_status = None
    /\ transport.mode = "tcp"
    /\ transport.workers[c].pc = "parse"
    /\ LET p == _parse_message(transport.workers[c].buffer)
       IN  IF p.message = None
           THEN \* break
                /\ transport' = [transport EXCEPT !.workers[c].buffer = p.buffer,
                                                  !.workers[c].pc = "recv"]
                /\ UNCHANGED <<server, exit_status, handled, last, io>>
           ELSE LET message == RequestOf(p.message[1])
                    r == handle_request(server, message, NoEnv)
                IN  /\ server' = r.self
                    \* SystemExit ends the worker's thread only
                    /\ exit_status' = exit_status
                    /\ handled' = Handled(message, r)
                    /\ last' = LastCall(message, r)
                    /\ transport' =
                         [transport EXCEPT
                            !.workers[c].buffer = p.buffer,
                            !.workers[c].dispatched = @ + 1,
                            !.workers[c].pc =
                                IF r.outcome = "return" THEN "parse" ELSE "ended"]
                    \* _send_message(client_socket, response), or
                    \* except Exception / finally: client_socket.close()
                    /\ io' = [io EXCEPT
                                !.sockets[c].in_flight =
                                    IF @ = <<>> THEN @ ELSE Tail(@),
                                !.sockets[c].sent = WriteResponse(@, r.response),
                                !.sockets[c].state =
                                    IF r.outcome = "return" THEN @ ELSE "closed"]

NextDrivers ==
    \/ \E frame \in Frames : StdinWrite(frame)
    \/ StdinClose
    \/ StdioStart
    \/ StdioLoop
    \/ TCPStart
    \/ \E c \in Conns : PeerConnect(c)
    \/ \E c \in Conns, frame \in Frames : PeerSend(c, frame)
    \/ \E c \in Conns : PeerClose(c)
    \/ \E c \in Conns : Accept(c)
    \/ \E c \in Conns : WorkerRecv(c)
    \/ \E c \in Conns : WorkerParse(c)

SpecDrivers == InitDrivers /\ [][NextDrivers]_vars

(***************************************************************************)
(* SpecFraming: a peer that encodes JSON objects as _send_message does and *)
(* puts the bytes on a wire, and a decoder that takes them off the wire    *)
(* with _parse_message.                                                    *)
(***************************************************************************)
MaxEncoded == 2     \* objects encoded in one run

\* _send_message whose Content-Length is one less than the body's length
_send_message_short_length(message) ==
    ContentLengthHeader(Len(json_dumps(message)) - 1) \o json_dumps(message)
\* TCPTransport._send_message: the bytes of the two sendall calls
_send_message(message) ==
    LET content == json_dumps(message)
        content_bytes == content
        header == ContentLengthHeader(Len(content_bytes))
    IN  header \o content_bytes

\* requests, responses and the empty object
JsonObjects ==
    {JsonObject(m) : m \in DriverMessages}
    \cup {<<>>,
          <<<<"jsonrpc", "2.0">>, <<"id", "7">>, <<"result", "null">>>>,
          <<<<"jsonrpc", "2.0">>, <<"id", "0">>, <<"error", "{-32601}">>>>}

FramingTransport == [mode |-> "framing", decoded |-> <<>>]
FramingIO == [mode |-> "framing", wire |-> <<>>, encoded |-> <<>>]

InitFraming ==
    /\ InitServer
    /\ transport = FramingTransport
    /\ io = FramingIO

\* the peer encodes message and puts its bytes on the wire
Encode(message) ==
    /\ io.mode = "framing"
    /\ Len(io.encoded) < MaxEncoded
    /\ io' = [io EXCEPT !.wire = @ \o _send_message(message),
                        !.encoded = Append(@, message)]
    /\ UNCHANGED <<server, exit_status, handled, last, transport>>

\* message, buffer = self._parse_message(buffer), a message being there
Decode ==
    /\ io.mode = "framing"
    /\ LET p == _parse_message(io.wire)
       IN  /\ p.message # None
           /\ io' = [io EXCEPT !.wire = p.buffer]
           /\ transport' = [transport EXCEPT !.decoded = Append(@, p.message[1])]
    /\ UNCHANGED <<server, exit_status, handled, last>>

NextFraming ==
    \/ \E message \in JsonObjects : Encode(message)
    \/ Decode

SpecFraming == InitFraming /\ [][NextFraming]_vars

(***************************************************************************)
(* SpecReads: the TCP driver with one connection whose peer sends          *)
(* well-formed frames, every recv giving any number of the bytes that have *)
(* arrived.                                                                *)
(***************************************************************************)
ReadMessages ==
    {[method |-> "shutdown", id |-> Some(7), params |-> None],
     [method |-> "foo/bar", id |-> Some(0), params |-> None],
     [method |-> "exit", id |-> None, params |-> None],
     [method |-> "textDocument/didOpen", id |-> None,
      params |-> ValueOf(JsonParams, "{a.py,x}")],
     [method |-> "textDocument/completion", id |-> Some(0),
      params |-> Some(NotADict)]}
ReadFrames == {Frame(json_dumps(JsonObject(m))) : m \in ReadMessages}

InitReads ==
    /\ InitServer
    /\ transport = TCPTransport
    /\ io = TCPIO

\* recv gives some of the bytes that have arrived
WorkerRecvSome(c) == \E n \in 0..Len(io.sockets[c].inbox) : Recv(c, n)

NextReads ==
    \/ TCPStart
    \/ PeerConnect(1)
    \/ Accept(1)
    \/ \E frame \in ReadFrames : PeerSend(1, frame)
    \/ PeerClose(1)
    \/ WorkerRecvSome(1)
    \/ WorkerParse(1)

SpecReads == InitReads /\ [][NextReads]_vars

(***************************************************************************)
(* SpecStore: the connection workers of the TCP driver as threads that     *)
(* share the server.  No handler takes a lock, so a step of a worker is    *)
(* one access to the document store and the workers' steps interleave.     *)
(* A worker's handler keeps the LSPHandlers object it was called on (ref), *)
(* also after initialize has bound server.handlers to a new one.           *)
(***************************************************************************)
MaxCalls == 5      \* handle_request calls of all workers in one run

NoStoreWorker ==
    [pc |-> "idle", uri |-> "", ref |-> 0, size |-> 0, keys |-> <<>>,
     pos |-> 0, error |-> ""]
StoreTransport ==
    [mode |-> "store", retired |-> <<>>,
     workers |-> [c \in Conns |-> NoStoreWorker]]
StoreIO == [mode |-> "store", calls |-> 0]

InitStore ==
    /\ InitServer
    /\ transport = StoreTransport
    /\ io = StoreIO

\* the LSPHandlers objects: the retired ones, then the one server.handlers
\* is bound to
CurrentRef == Len(transport.retired) + 1
Deref(ref) ==
    IF ref = CurrentRef THEN server.handlers ELSE transport.retired[ref]
\* the key order of a dict
KeyOrder(d) == [i \in 1..Len(d) |-> d[i][1]]

StoreOpenParams ==
    {[EmptyParams EXCEPT !.textDocument = TextDocument(u, Some(t))] :
        u \in URIs, t \in {<<"x">>, <<"y">>}}
StoreChangeParams ==
    {[EmptyParams EXCEPT
        !.textDocument = TextDocument("file:///a.py", None),
        !.contentChanges = Some(<<[text |-> Some(<<"z">>)]>>)]}
StoreInitializeParams ==
    {[EmptyParams EXCEPT !.rootUri = Some(<<"file://", "/repo">>)]}

\* a worker begins handle_request
Begins(c) ==
    /\ transport.mode = "store"
    /\ transport.workers[c].pc = "idle"
    /\ io.calls < MaxCalls
    /\ io' = [io EXCEPT !.calls = @ + 1]
    /\ UNCHANGED <<exit_status, handled, last>>

\* a worker goes on with the handler it is in
GoesOn(c, pc) ==
    /\ transport.mode = "store"
    /\ transport.workers[c].pc = pc
    /\ UNCHANGED <<exit_status, handled, last, io>>

\* _handle_did_open: one store_document
StoreDidOpen(c, params) ==
    /\ Begins(c)
    /\ server' = _handle_did_open(server, params).self
    /\ UNCHANGED transport

\* _handle_did_change: one store_document
StoreDidChange(c, params) ==
    /\ Begins(c)
    /\ server' = _handle_did_change(server, params).self
    /\ UNCHANGED transport

\* _handle_initialize: self.handlers = LSPHandlers(...)
StoreInitialize(c, params) ==
    /\ Begins(c)
    /\ server' = _handle_initialize(server, params).self
    /\ transport' = [transport EXCEPT !.retired = Append(@, server.handlers)]

\* remove_document: if uri in self._document_store
RemoveCheck(c, uri) ==
    /\ Begins(c)
    /\ IF uri \in DictKeys(server.handlers._document_store)
       THEN transport' = [transport EXCEPT
                            !.workers[c].pc = "del",
                            !.workers[c].uri = uri,
                            !.workers[c].ref = CurrentRef]
       ELSE UNCHANGED transport
    /\ UNCHANGED server

\* remove_document: del self._document_store[uri]
RemoveDel(c) ==
    /\ GoesOn(c, "del")
    /\ LET w == transport.workers[c]
           store == Deref(w.ref)._document_store
       IN  IF w.uri \in DictKeys(store)
           THEN /\ IF w.ref = CurrentRef
                   THEN /\ server' = [server EXCEPT
                                        !.handlers = remove_document(@, w.uri)]
                        /\ transport' = [transport EXCEPT
                                           !.workers[c] = NoStoreWorker]
                   ELSE /\ transport' =
                             [transport EXCEPT
                                !.retired[w.ref] = remove_document(@, w.uri),
                                !.workers[c] = NoStoreWorker]
                        /\ UNCHANGED server
           ELSE \* KeyError leaves the handler and ends the worker
                /\ transport' = [transport EXCEPT
                                   !.workers[c].pc = "raised",
                                   !.workers[c].error = "KeyError"]
                /\ UNCHANGED server

\* handle_completion: document = self.get_document(uri)
CompletionGet(c, uri) ==
    /\ Begins(c)
    /\ LET document == get_document(server.handlers, uri)
       IN  IF document = None \/ document = Some(EmptyStr)
           THEN UNCHANGED transport
           ELSE transport' = [transport EXCEPT
                                !.workers[c].pc = "secondary",
                                !.workers[c].uri = uri,
                                !.workers[c].ref = CurrentRef]
    /\ UNCHANGED server

\* _build_secondary_context: if len(self._document_store) <= 1: return "";
\* otherwise the loop's iterator is made
SecondaryLen(c) ==
    /\ GoesOn(c, "secondary")
    /\ LET w == transport.workers[c]
           store == Deref(w.ref)._document_store
       IN  IF Len(store) <= 1
           THEN transport' = [transport EXCEPT !.workers[c] = NoStoreWorker]
           ELSE transport' = [transport EXCEPT
                                !.workers[c].pc = "iter",
                                !.workers[c].size = Len(store),
                                !.workers[c].keys = KeyOrder(store),
                                !.workers[c].pos = 0]
    /\ UNCHANGED server

\* _build_secondary_context: one turn of for uri, text in
\* self._document_store.items().  The iterator raises RuntimeError when the
\* dict's size is not the size it began with; after insertions and
\* deletions that gave back that size it raises or goes on.
SecondaryNext(c) ==
    /\ GoesOn(c, "iter")
    /\ LET w == transport.workers[c]
           store == Deref(w.ref)._document_store
           raises == [transport EXCEPT !.workers[c].pc = "raised",
                                       !.workers[c].error = "RuntimeError"]
           goes_on == IF w.pos >= Len(store)
                      THEN [transport EXCEPT !.workers[c] = NoStoreWorker]
                      ELSE [transport EXCEPT !.workers[c].pos = @ + 1]
       IN  IF Len(store) # w.size THEN transport' = raises
           ELSE IF KeyOrder(store) # w.keys
           THEN transport' = raises \/ transport' = goes_on
           ELSE transport' = goes_on
    /\ UNCHANGED server

NextStore ==
    \E c \in Conns :
        \/ \E params \in StoreOpenParams : StoreDidOpen(c, params)
        \/ \E params \in StoreChangeParams : StoreDidChange(c, params)
        \/ \E params \in StoreInitializeParams : StoreInitialize(c, params)
        \/ \E uri \in URIs : RemoveCheck(c, uri)
        \/ RemoveDel(c)
        \/ \E uri \in URIs : CompletionGet(c, uri)
        \/ SecondaryLen(c)
        \/ SecondaryNext(c)

SpecStore == InitStore /\ [][NextStore]_vars

(***************************************************************************)
(* SpecCompletion: documents are opened and closed and completion is       *)
(* asked for, the backend answering any of RawCompletions.  io holds the   *)
(* collaborators' side of the last handle_request call: the calls made to  *)
(* them and what the backend answered.                                     *)
(***************************************************************************)
RawCompletions ==
    {None, Some(EmptyStr), Some(<<"y">>), Some(<<" ", "\n">>),
     Some(<<Fence, "y", "\n", "x", "\n", Fence>>),
     Some(<<Fence, "\n", Fence>>),
     Some(<<"Completion:", " ", "y">>),
     Some(<<"\n", " ", "y", "\n">>)}
CompletionPositions ==
    {None, NotAPosition, Position(0, 1), Position(3, 0), Position(0 - 2, 0)}
CompletionCalls ==
    Requests("textDocument/completion", Ids,
        {NotADict}
        \cup {[EmptyParams EXCEPT !.textDocument = td, !.position = pos] :
                td \in {None} \cup {TextDocument(u, None) : u \in URIs},
                pos \in CompletionPositions})
CompletionOpens ==
    Requests("textDocument/didOpen", {},
        {[EmptyParams EXCEPT !.textDocument = TextDocument(u, Some(t))] :
            u \in URIs, t \in {<<"x">>, EmptyStr}})
CompletionCloses ==
    Requests("textDocument/didClose", {},
        {[EmptyParams EXCEPT !.textDocument = TextDocument(u, None)] :
            u \in URIs})

CompletionTransport == [mode |-> "completion"]
CompletionIO == [mode |-> "completion", calls |-> <<>>, completion |-> None]

InitCompletion ==
    /\ InitServer
    /\ transport = CompletionTransport
    /\ io = CompletionIO

\* server.handle_request(request) for a document notification
CompletionNotify(request) ==
    /\ transport.mode = "completion"
    /\ LET r == handle_request(server, request, NoEnv)
       IN  /\ server' = r.self
           /\ last' = LastCall(request, r)
    /\ io' = CompletionIO
    /\ UNCHANGED <<exit_status, handled, transport>>

\* server.handle_request(request) for textDocument/completion, the
\* backend answering completion
Complete(request, completion) ==
    /\ transport.mode = "completion"
    /\ LET env == [NoEnv EXCEPT !.completion = completion]
           r == handle_request(server, request, env)
           params == Get(request.params, EmptyParams)
       IN  /\ server' = r.self
           /\ last' = LastCall(request, r)
           /\ io' = [io EXCEPT
                       !.completion = completion,
                       !.calls =
                           IF params.isDict
                           THEN handle_completion(
                                    server.handlers, ParamsUri(params),
                                    ParamsPosition(params), env).calls
                           ELSE <<>>]
    /\ UNCHANGED <<exit_status, handled, transport>>

NextCompletion ==
    \/ \E request \in CompletionOpens : CompletionNotify(request)
    \/ \E request \in CompletionCloses : CompletionNotify(request)
    \/ \E request \in CompletionCalls, completion \in RawCompletions :
          Complete(request, completion)

SpecCompletion == InitCompletion /\ [][NextCompletion]_vars

(***************************************************************************)
(* SpecRoots: initialize requests with and without a workspace root,       *)
(* inside and outside a git repository, and gopilot/agent requests.        *)
(***************************************************************************)
RootParams ==
    {EmptyParams,
     [EmptyParams EXCEPT !.rootUri = Some(EmptyStr)],
     [EmptyParams EXCEPT !.rootUri = Some(<<"file://", "/repo">>)],
     [EmptyParams EXCEPT !.rootUri = Some(<<"file://", "/work">>)],
     [EmptyParams EXCEPT !.rootUri = Some(<<"file://", "/tmp">>)],
     [EmptyParams EXCEPT !.rootPath = Some(<<"/repo">>)],
     [EmptyParams EXCEPT !.rootPath = Some(<<"/tmp">>)]}
RootInitializes == Requests("initialize", Ids, RootParams)
RootAgentCalls ==
    Requests("gopilot/agent", {},
        {[EmptyParams EXCEPT !.action = Some(a)] :
            a \in {"status", "query", "review", "deploy"}})

RootsTransport == [mode |-> "roots"]
RootsIO == [mode |-> "roots"]

InitRoots ==
    /\ InitServer
    /\ transport = RootsTransport
    /\ io = RootsIO

\* server.handle_request(request), the collaborators answering env
RootCall(request, env) ==
    /\ transport.mode = "roots"
    /\ LET r == handle_request(server, request, env)
       IN  /\ server' = r.self
           /\ handled' = Handled(request, r)
           /\ last' = LastCall(request, r)
    /\ UNCHANGED <<exit_status, transport, io>>

RootInitialize(request) == RootCall(request, NoEnv)
RootAgent(request, env) == RootCall(request, env)

NextRoots ==
    \/ \E request \in RootInitializes : RootInitialize(request)
    \/ \E request \in RootAgentCalls, env \in AgentAnswers :
          RootAgent(request, env)

SpecRoots == InitRoots /\ [][NextRoots]_vars

(***************************************************************************)
(* SpecAgent: handle_agent_request of the agent of a repository, called    *)
(* with any action, params and outcome of the collaborators.  io holds     *)
(* the last call: its arguments, what was returned and the collaborators   *)
(* that were called.                                                       *)
(***************************************************************************)
AgentActionNames ==
    {AgentActions[i] : i \in 1..Len(AgentActions)} \cup {"deploy", ""}
AgentParams == {[isDict |-> TRUE], [isDict |-> FALSE]}
AgentEnvs ==
    {[NoEnv EXCEPT !.agent_text = text, !.agent_raises = who,
                   !.changes = changes] :
        text \in {None, Some(EmptyStr), Some(<<"y">>)},
        who \in {"none", "git", "generate"},
        changes \in BOOLEAN}

AgentTransport == [mode |-> "agent"]
NoAgentCall ==
    [mode |-> "agent", called |-> FALSE, action |-> "", isDict |-> TRUE,
     env |-> NoEnv, response |-> [result |-> EmptyStr], calls |-> <<>>]

InitAgent ==
    /\ server = LSPServer(Some(<<"/repo">>), DefaultContextLines)
    /\ exit_status = None
    /\ handled = {}
    /\ last = None
    /\ transport = AgentTransport
    /\ io = NoAgentCall

\* self.agent.handle_agent_request(action, params)
AgentCall(action, params, env) ==
    /\ transport.mode = "agent"
    /\ server.agent # None
    /\ io' = [mode |-> "agent", called |-> TRUE, action |-> action,
              isDict |-> params.isDict, env |-> env,
              response |->
                  handle_agent_request(server.agent[1], action, params, env),
              calls |-> AgentCollaborators(action, params, env)]
    /\ UNCHANGED <<server, exit_status, handled, last, transport>>

NextAgent ==
    \E action \in AgentActionNames, params \in AgentParams, env \in AgentEnvs :
        AgentCall(action, params, env)

SpecAgent == InitAgent /\ [][NextAgent]_vars

(***************************************************************************)
(* SpecReview: CopilotAgent.review_changes, called with any base branch,   *)
(* any diffs of the repository and any answer of the backend.  A call to   *)
(* a collaborator is <<name, argument>>.  io holds the last call: its      *)
(* inputs, the text returned and the calls made.                           *)
(***************************************************************************)
_MAX_DIFF_CHARS == 4000

\* _truncate(text)
_truncate(text) ==
    IF Len(text) <= _MAX_DIFF_CHARS THEN text
    ELSE SubSeq(text, 1, _MAX_DIFF_CHARS) \o <<"\n... (truncated)">>

\* if not diff
NoText(text) == text = None \/ text = Some(EmptyStr)

\* mutant: the working-tree diff is looked at before the staged diff
review_changes_working_first(base_branch, git, answer) ==
    LET diff == IF ~NoText(git.working) THEN git.working ELSE git.staged
    IN  IF NoText(diff)
        THEN [text |-> Some(<<"No changes detected to review.">>),
              calls |-> <<<<"get_diff", <<>>>>, <<"get_staged_diff", <<>>>>>>]
        ELSE [text |-> answer,
              calls |-> <<<<"get_diff", <<>>>>,
                          <<"generate",
                            <<"Review this diff:", "\n", Fence, "diff", "\n">>
                            \o diff[1] \o <<"\n", Fence>>>>>>]

\* CopilotAgent.review_changes: git holds what the repository inspector
\* returns for the staged diff, the working-tree diff and the diff against
\* base_branch (None: an error), answer what the backend's generate returns
review_changes(base_branch, git, answer) ==
    LET with_base == base_branch # None /\ base_branch # Some(EmptyStr)
        staged_first == ~with_base /\ NoText(git.staged)
        diff == IF with_base THEN git.base
                ELSE IF staged_first THEN git.working ELSE git.staged
        git_calls ==
            IF with_base THEN <<<<"get_diff", base_branch[1]>>>>
            ELSE IF staged_first
            THEN <<<<"get_staged_diff", <<>>>>, <<"get_diff", <<>>>>>>
            ELSE <<<<"get_staged_diff", <<>>>>>>
    IN  IF NoText(diff)
        THEN [text |-> Some(<<"No changes detected to review.">>),
              calls |-> git_calls]
        ELSE [text |-> answer,
              calls |-> Append(git_calls,
                  <<"generate",
                    <<"Review this diff:", "\n", Fence, "diff", "\n">>
                    \o _truncate(diff[1]) \o <<"\n", Fence>>>>)]

ReviewBases == {None, Some(EmptyStr), Some(<<"main">>)}
ReviewDiffs == {None, Some(EmptyStr), Some(<<"s">>), Some(<<"w">>)}
ReviewAnswers == {None, Some(<<"y">>)}

ReviewTransport == [mode |-> "review"]
NoReviewCall ==
    [mode |-> "review", called |-> FALSE, base_branch |-> None,
     git |-> [staged |-> None, working |-> None, base |-> None],
     answer |-> None, text |-> None, calls |-> <<>>]

InitReview ==
    /\ server = LSPServer(Some(<<"/repo">>), DefaultContextLines)
    /\ exit_status = None
    /\ handled = {}
    /\ last = None
    /\ transport = ReviewTransport
    /\ io = NoReviewCall

\* self.review_changes(base_branch)
ReviewCall(base_branch, git, answer) ==
    /\ transport.mode = "review"
    /\ LET r == review_changes(base_branch, git, answer)
       IN  io' = [mode |-> "review", called |-> TRUE,
                  base_branch |-> base_branch, git |-> git,
                  answer |-> answer, text |-> r.text, calls |-> r.calls]
    /\ UNCHANGED <<server, exit_status, handled, last, transport>>

NextReview ==
    \E base_branch \in ReviewBases, staged \in ReviewDiffs,
       working \in ReviewDiffs, base \in {None, Some(<<"b">>)},
       answer \in ReviewAnswers :
        ReviewCall(base_branch,
                   [staged |-> staged, working |-> working, base |-> base],
                   answer)

SpecReview == InitReview /\ [][NextReview]_vars

(***************************************************************************)
(* SpecScope: LSPHandlers._build_local_scope, applied to the lines of any  *)
(* document, any window and any cursor position.  The initial states draw  *)
(* the inputs, the one action applies the function.                        *)
(***************************************************************************)
\* s[start:stop] of Python, for a str or a list
Slice(s, start, stop) ==
    LET Clamp(i) == IF i < 0
                    THEN (IF i + Len(s) < 0 THEN 0 ELSE i + Len(s))
                    ELSE (IF i > Len(s) THEN Len(s) ELSE i)
        a == Clamp(start)
        b == Clamp(stop)
    IN  IF a >= b THEN <<>> ELSE SubSeq(s, a + 1, b)
\* s[start:] and s[:stop]
SliceFrom(s, start) == Slice(s, start, Len(s))
SliceTo(s, stop) == Slice(s, 0, stop)

\* mutant: a cursor line past the end gives no before-text
_build_local_scope_nothing_past_end(self, lines, line_num, char_num) ==
    LET start_line == IF line_num - self.context_lines > 0
                      THEN line_num - self.context_lines ELSE 0
        end_line == IF Len(lines) < line_num + self.context_lines + 1
                    THEN Len(lines) ELSE line_num + self.context_lines + 1
        line == lines[(IF line_num < 0 THEN line_num + Len(lines)
                       ELSE line_num) + 1]
    IN  IF line_num < 0 - Len(lines) \/ line_num >= Len(lines)
        THEN [code_before |-> <<>>, code_after |-> <<>>,
              cursor_prefix |-> <<>>, raised |-> line_num < 0]
        ELSE [code_before |->
                  Join(Append(Slice(lines, start_line, line_num),
                              SliceTo(line, char_num)), "\n"),
              code_after |->
                  Join(<<SliceFrom(line, char_num)>>
                       \o Slice(lines, line_num + 1, end_line), "\n"),
              cursor_prefix |-> SliceTo(line, char_num),
              raised |-> FALSE]

\* mutant: the cursor prefix reaches through the character at the cursor
_build_local_scope_through_cursor(self, lines, line_num, char_num) ==
    LET start_line == IF line_num - self.context_lines > 0
                      THEN line_num - self.context_lines ELSE 0
        end_line == IF Len(lines) < line_num + self.context_lines + 1
                    THEN Len(lines) ELSE line_num + self.context_lines + 1
        line == lines[(IF line_num < 0 THEN line_num + Len(lines)
                       ELSE line_num) + 1]
    IN  IF line_num < 0 - Len(lines)
        THEN [code_before |-> <<>>, code_after |-> <<>>,
              cursor_prefix |-> <<>>, raised |-> TRUE]
        ELSE IF line_num < Len(lines)
        THEN [code_before |->
                  Join(Append(Slice(lines, start_line, line_num),
                              SliceTo(line, char_num + 1)), "\n"),
              code_after |->
                  Join(<<SliceFrom(line, char_num + 1)>>
                       \o Slice(lines, line_num + 1, end_line), "\n"),
              cursor_prefix |-> SliceTo(line, char_num + 1),
              raised |-> FALSE]
        ELSE [code_before |-> Join(Slice(lines, start_line, line_num), "\n"),
              code_after |->
                  Join(Slice(lines, line_num + 1, end_line), "\n"),
              cursor_prefix |-> <<>>, raised |-> FALSE]

\* mutant: the window after the cursor is one line short
_build_local_scope_short_after(self, lines, line_num, char_num) ==
    LET start_line == IF line_num - self.context_lines > 0
                      THEN line_num - self.context_lines ELSE 0
        end_line == IF Len(lines) < line_num + self.context_lines
                    THEN Len(lines) ELSE line_num + self.context_lines
        line == lines[(IF line_num < 0 THEN line_num + Len(lines)
                       ELSE line_num) + 1]
    IN  IF line_num < 0 - Len(lines)
        THEN [code_before |-> <<>>, code_after |-> <<>>,
              cursor_prefix |-> <<>>, raised |-> TRUE]
        ELSE IF line_num < Len(lines)
        THEN [code_before |->
                  Join(Append(Slice(lines, start_line, line_num),
                              SliceTo(line, char_num)), "\n"),
              code_after |->
                  Join(<<SliceFrom(line, char_num)>>
                       \o Slice(lines, line_num + 1, end_line), "\n"),
              cursor_prefix |-> SliceTo(line, char_num),
              raised |-> FALSE]
        ELSE [code_before |-> Join(Slice(lines, start_line, line_num), "\n"),
              code_after |->
                  Join(Slice(lines, line_num + 1, end_line), "\n"),
              cursor_prefix |-> <<>>, raised |-> FALSE]

\* LSPHandlers._build_local_scope: raised stands for the IndexError of
\* lines[line_num]
_build_local_scope(self, lines, line_num, char_num) ==
    LET start_line == IF line_num - self.context_lines > 0
                      THEN line_num - self.context_lines ELSE 0
        end_line == IF Len(lines) < line_num + self.context_lines + 1
                    THEN Len(lines) ELSE line_num + self.context_lines + 1
        line == lines[(IF line_num < 0 THEN line_num + Len(lines)
                       ELSE line_num) + 1]
    IN  IF line_num < 0 - Len(lines)
        THEN [code_before |-> <<>>, code_after |-> <<>>,
              cursor_prefix |-> <<>>, raised |-> TRUE]
        ELSE IF line_num < Len(lines)
        THEN [code_before |->
                  Join(Append(Slice(lines, start_line, line_num),
                              SliceTo(line, char_num)), "\n"),
              code_after |->
                  Join(<<SliceFrom(line, char_num)>>
                       \o Slice(lines, line_num + 1, end_line), "\n"),
              cursor_prefix |-> SliceTo(line, char_num),
              raised |-> FALSE]
        ELSE [code_before |-> Join(Slice(lines, start_line, line_num), "\n"),
              code_after |->
                  Join(Slice(lines, line_num + 1, end_line), "\n"),
              cursor_prefix |-> <<>>, raised |-> FALSE]

MaxText == 4
MaxLines == 6
ScopeChars == {"a", "b", "\n"}
\* the texts of at most n characters
RECURSIVE TextsUpTo(_)
TextsUpTo(n) ==
    IF n = 0 THEN {<<>>}
    ELSE LET shorter == TextsUpTo(n - 1)
         IN  shorter \cup {Append(text, c) : text \in shorter, c \in ScopeChars}
\* the document whose n lines are "0", "1", ...
NumberedDocument(n) ==
    Join([i \in 1..n |-> <<DigitSymbols[i]>>], "\n")
AddDocument ==
    <<"d", "e", "f", " ", "a", "d", "d", "(", "a", ",", " ", "b", ")", ":",
      "\n", " ", " ", " ", " ", "r", "e", "t", "u", "r", "n", " ", "a">>
ScopeTexts ==
    TextsUpTo(MaxText) \cup {NumberedDocument(n) : n \in 1..MaxLines}
    \cup {AddDocument}
ScopeWindows == {0, 1, 2, DefaultContextLines}
ScopeLines == (0 - 2)..(MaxLines + 1)
ScopeCharacters == {0 - 1, 0, 1, 2, 3, 11, 12}

ScopeTransport == [mode |-> "scope"]

InitScope ==
    /\ \E context_lines \in ScopeWindows :
           server = LSPServer(Some(<<"/repo">>), context_lines)
    /\ exit_status = None
    /\ handled = {}
    /\ last = None
    /\ transport = ScopeTransport
    /\ \E text \in ScopeTexts, line_num \in ScopeLines,
          char_num \in ScopeCharacters :
           io = [mode |-> "scope", called |-> FALSE,
                 lines |-> Split(text, "\n"),
                 line_num |-> line_num, char_num |-> char_num,
                 code_before |-> EmptyStr, code_after |-> EmptyStr,
                 cursor_prefix |-> EmptyStr, raised |-> FALSE]

\* self._build_local_scope(lines, line_num, char_num)
BuildLocalScope ==
    /\ transport.mode = "scope"
    /\ ~io.called
    /\ LET r == _build_local_scope(server.handlers, io.lines, io.line_num,
                                   io.char_num)
       IN  io' = [io EXCEPT !.called = TRUE,
                            !.code_before = r.code_before,
                            !.code_after = r.code_after,
                            !.cursor_prefix = r.cursor_prefix,
                            !.raised = r.raised]
    /\ UNCHANGED <<server, exit_status, handled, last, transport>>

NextScope == BuildLocalScope

SpecScope == InitScope /\ [][NextScope]_vars

(***************************************************************************)
(* SpecTabs: documents are opened and closed and the secondary context is  *)
(* built for a current URI.  A URI is a sequence of tokens, its scheme     *)
(* "file://" being one token and its extension the last one.               *)
(***************************************************************************)
\* s.startswith(prefixes): the prefixes are single tokens
startswith(s, prefixes) == s # <<>> /\ Head(s) \in prefixes

\* s.replace(old, ""), old a single token
replace(s, old) == SelectSeq(s, LAMBDA token : token # old)

\* LSPHandlers._get_language_from_uri
_get_language_from_uri(uri) ==
    IF uri = <<>> THEN "text"
    ELSE CASE uri[Len(uri)] = ".py" -> "python"
           [] uri[Len(uri)] = ".js" -> "javascript"
           [] uri[Len(uri)] = ".ts" -> "typescript"
           [] uri[Len(uri)] = ".md" -> "markdown"
           [] OTHER -> "text"

\* the concatenation of a sequence of sequences
RECURSIVE Concat(_)
Concat(seqs) ==
    IF seqs = <<>> THEN <<>>
    ELSE IF Len(seqs) = 1 THEN seqs[1]
    ELSE LET half == Len(seqs) \div 2
         IN  Concat(SubSeq(seqs, 1, half))
             \o Concat(SubSeq(seqs, half + 1, Len(seqs)))

\* LSPHandlers._extract_file_summary
_extract_file_summary(text, language) ==
    LET lines == Split(text, "\n")
        PythonLine(i) ==
            LET stripped == strip(lines[i])
            IN  IF i - 1 < 100 /\ startswith(stripped, {"import ", "from "})
                THEN <<stripped>>
                ELSE IF /\ startswith(stripped,
                                      {"def ", "class ", "async def "})
                        /\ Contains(stripped, ":")
                THEN <<Append(Split(stripped, ":")[1], ":")>>
                ELSE <<>>
        ScriptLine(i) ==
            LET stripped == strip(lines[i])
            IN  IF startswith(stripped,
                              {"import ", "export ", "const ", "let ", "var "})
                THEN <<SliceTo(stripped, 80)>>
                ELSE <<>>
        FallbackLine(i) ==
            IF strip(lines[i]) # <<>>
            THEN <<SliceTo(strip(lines[i]), 80)>> ELSE <<>>
        first(n) == IF Len(lines) < n THEN Len(lines) ELSE n
        by_language ==
            IF language = "python"
            THEN Concat([i \in 1..Len(lines) |-> PythonLine(i)])
            ELSE IF language \in {"javascript", "typescript"}
            THEN Concat([i \in 1..first(100) |-> ScriptLine(i)])
            ELSE <<>>
        summary_lines ==
            IF by_language # <<>> THEN by_language
            ELSE SliceTo(Concat([i \in 1..first(20) |-> FallbackLine(i)]), 10)
    IN  Join(SliceTo(summary_lines, 30), "\n")

OpenTabsHeader == "=== Open Tabs (Secondary Context) ==="

\* mutant: the current document gets a section as well
_build_secondary_context_with_current(self, current_uri) ==
    LET store == self._document_store
        Part(i) ==
            LET summary ==
                    _extract_file_summary(store[i][2],
                                          _get_language_from_uri(store[i][1]))
            IN  <<<<"\n", "--- ">> \o replace(store[i][1], "file://")
                  \o <<" (", _get_language_from_uri(store[i][1]), ") ---">>>>
                \o (IF summary # <<>> THEN <<summary>> ELSE <<>>)
    IN  IF Len(store) <= 1 THEN EmptyStr
        ELSE Join(<<<<OpenTabsHeader>>>>
                  \o Concat([i \in 1..Len(store) |-> Part(i)]), "\n")

\* LSPHandlers._build_secondary_context
_build_secondary_context(self, current_uri) ==
    LET store == self._document_store
        Part(i) ==
            LET uri == store[i][1]
                file_path == replace(uri, "file://")
                language == _get_language_from_uri(uri)
                summary == _extract_file_summary(store[i][2], language)
            IN  IF uri = current_uri THEN <<>>
                ELSE <<<<"\n", "--- ">> \o file_path
                       \o <<" (", language, ") ---">>>>
                     \o (IF summary # <<>> THEN <<summary>> ELSE <<>>)
        context_parts ==
            <<<<OpenTabsHeader>>>>
            \o Concat([i \in 1..Len(store) |-> Part(i)])
    IN  IF Len(store) <= 1 THEN EmptyStr
        ELSE IF Len(context_parts) > 1 THEN Join(context_parts, "\n")
        ELSE EmptyStr

TabURIs ==
    {<<"file://", "/a", ".py">>, <<"file://", "/b", ".js">>,
     <<"file://", "/lib", "/a", ".py">>, <<"file://", "/notes", ".md">>}
TabTexts ==
    {<<"import ", "os", "\n", "def ", "main()", ":", " ", "pass">>,
     <<"const ", "x", "\n", "\n", "see", " ", "/a", ".py">>,
     <<"see", " ", "/a", ".py">>}

TabsTransport == [mode |-> "tabs"]
NoTabsCall ==
    [mode |-> "tabs", called |-> FALSE, current_uri |-> EmptyStr,
     result |-> EmptyStr]

InitTabs ==
    /\ server = LSPServer(None, DefaultContextLines)
    /\ exit_status = None
    /\ handled = {}
    /\ last = None
    /\ transport = TabsTransport
    /\ io = NoTabsCall

\* self.handlers.store_document(uri, text)
TabOpen(uri, text) ==
    /\ transport.mode = "tabs"
    /\ server' = [server EXCEPT
                    !.handlers = store_document(@, uri, text)]
    /\ io' = NoTabsCall
    /\ UNCHANGED <<exit_status, handled, last, transport>>

\* self.handlers.remove_document(uri)
TabClose(uri) ==
    /\ transport.mode = "tabs"
    /\ server' = [server EXCEPT !.handlers = remove_document(@, uri)]
    /\ io' = NoTabsCall
    /\ UNCHANGED <<exit_status, handled, last, transport>>

\* self._build_secondary_context(current_uri)
BuildSecondaryContext(current_uri) ==
    /\ transport.mode = "tabs"
    /\ io' = [mode |-> "tabs", called |-> TRUE, current_uri |-> current_uri,
              result |-> _build_secondary_context(server.handlers,
                                                  current_uri)]
    /\ UNCHANGED <<server, exit_status, handled, last, transport>>

NextTabs ==
    \/ \E uri \in TabURIs, text \in TabTexts : TabOpen(uri, text)
    \/ \E uri \in TabURIs : TabClose(uri)
    \/ \E uri \in TabURIs : BuildSecondaryContext(uri)

SpecTabs == InitTabs /\ [][NextTabs]_vars

(***************************************************************************)
(* SpecProject: the project scope of a completion request.  io.files is    *)
(* what git ls-files gives now; it changes between requests.  io.calls are *)
(* the calls the last _build_project_scope made to the repository          *)
(* inspector.                                                              *)
(***************************************************************************)
MAX_PROJECT_FILES == 200

\* mutant: the listing is not capped
_build_project_scope_uncapped(self, files) ==
    IF self.git_context = None
    THEN [result |-> EmptyStr, calls |-> <<>>]
    ELSE IF files = <<>>
    THEN [result |-> EmptyStr, calls |-> <<"list_project_files">>]
    ELSE [result |-> <<"=== Project Files ===", "\n">> \o Join(files, "\n"),
          calls |-> <<"list_project_files">>]

\* LSPHandlers._build_project_scope, files being what
\* self.git_context.list_project_files() returns when it is called
_build_project_scope(self, files) ==
    IF self.git_context = None
    THEN [result |-> EmptyStr, calls |-> <<>>]
    ELSE IF files = <<>>
    THEN [result |-> EmptyStr, calls |-> <<"list_project_files">>]
    ELSE [result |-> <<"=== Project Files ===", "\n">>
                     \o Join(IF Len(files) > MAX_PROJECT_FILES
                             THEN SliceTo(files, MAX_PROJECT_FILES)
                             ELSE files, "\n"),
          calls |-> <<"list_project_files">>]

\* n tracked files of one directory
TrackedFiles(dir, n) == [i \in 1..n |-> <<dir \o ToString(i) \o ".py">>]
FileCounts == 0..3 \cup 198..202 \cup {300}
FileLists == {TrackedFiles(dir, n) : dir \in {"src/", "lib/"}, n \in FileCounts}

ProjectTransport == [mode |-> "project"]

InitProject ==
    /\ \E repo_path \in ConfiguredRepoPaths \cup {Some(<<"/work">>)} :
           server = LSPServer(repo_path, DefaultContextLines)
    /\ exit_status = None
    /\ handled = {}
    /\ last = None
    /\ transport = ProjectTransport
    /\ io = [mode |-> "project", files |-> <<>>, called |-> FALSE,
             result |-> EmptyStr, calls |-> <<>>]

\* files are added to or removed from the repository
TrackedFilesChange(files) ==
    /\ transport.mode = "project"
    /\ files # io.files
    /\ io' = [mode |-> "project", files |-> files, called |-> FALSE,
              result |-> EmptyStr, calls |-> <<>>]
    /\ UNCHANGED <<server, exit_status, handled, last, transport>>

\* handle_completion: project_context = self._build_project_scope()
BuildProjectScope ==
    /\ transport.mode = "project"
    /\ LET r == _build_project_scope(server.handlers, io.files)
       IN  io' = [io EXCEPT !.called = TRUE, !.result = r.result,
                            !.calls = r.calls]
    /\ UNCHANGED <<server, exit_status, handled, last, transport>>

NextProject ==
    \/ \E files \in FileLists : TrackedFilesChange(files)
    \/ BuildProjectScope

SpecProject == InitProject /\ [][NextProject]_vars

(***************************************************************************)
(* SpecClean: LSPHandlers._clean_completion applied to a raw completion    *)
(* and to its own result.  The initial states draw the raw text.           *)
(***************************************************************************)
MaxClean == 4
CleanSymbols == {Fence, "Completion:", "\n", " ", "y"}
RECURSIVE CleanTexts(_)
CleanTexts(n) ==
    IF n = 0 THEN {<<>>}
    ELSE LET shorter == CleanTexts(n - 1)
         IN  shorter
             \cup {Append(text, c) : text \in shorter, c \in CleanSymbols}

CleanTransport == [mode |-> "clean"]

InitClean ==
    /\ server = LSPServer(None, DefaultContextLines)
    /\ exit_status = None
    /\ handled = {}
    /\ last = None
    /\ transport = CleanTransport
    /\ \E text \in CleanTexts(MaxClean) :
           io = [mode |-> "clean", cleanings |-> 0, raw |-> text,
                 text |-> text, before |-> text]

\* completion = self._clean_completion(completion)
CleanCompletion ==
    /\ transport.mode = "clean"
    /\ io.cleanings < 2
    /\ io' = [io EXCEPT !.cleanings = @ + 1,
                        !.text = _clean_completion(io.text),
                        !.before = io.text]
    /\ UNCHANGED <<server, exit_status, handled, last, transport>>

NextClean == CleanCompletion

SpecClean == InitClean /\ [][NextClean]_vars

(***************************************************************************)
(* SpecHover: one document is opened; then the word at a position of one   *)
(* of its lines is extracted, or a hover request is handled.  io holds the *)
(* inputs and the outcome of that call.                                    *)
(***************************************************************************)
MaxHoverText == 4
HoverChars == {"a", "_", " ", "\n"}
RECURSIVE HoverTextsUpTo(_)
HoverTextsUpTo(n) ==
    IF n = 0 THEN {<<>>}
    ELSE LET shorter == HoverTextsUpTo(n - 1)
         IN  shorter \cup {Append(text, c) : text \in shorter, c \in HoverChars}
ResultLine ==
    <<"r", "e", "s", "u", "l", "t", " ", "=", " ", "a", "d", "d", "(", "1",
      ",", " ", "2", ")">>
HoverTexts == HoverTextsUpTo(MaxHoverText) \cup {ResultLine}
HoverLines == {0 - 3, 0 - 1, 0, 1, MaxHoverText + 1}
HoverCharacters == (0 - 1)..MaxHoverText \cup {9, 18, 19}
HoverPositions ==
    {[isDict |-> FALSE, line |-> None, character |-> None],
     [isDict |-> TRUE, line |-> None, character |-> None]}
    \cup {[isDict |-> TRUE, line |-> Some(l), character |-> Some(c)] :
            l \in HoverLines, c \in HoverCharacters}
HoverExplanations == {None, Some(EmptyStr), Some(<<"adds">>)}

HoverTransport == [mode |-> "hover"]
NoHoverCall ==
    [mode |-> "hover", called |-> "", uri |-> "",
     position |-> [isDict |-> TRUE, line |-> None, character |-> None],
     explanation |-> None, line |-> EmptyStr, char |-> 0, word |-> EmptyStr,
     result |-> None, raised |-> FALSE]

InitHover ==
    /\ server = LSPServer(None, DefaultContextLines)
    /\ exit_status = None
    /\ handled = {}
    /\ last = None
    /\ transport = HoverTransport
    /\ io = NoHoverCall

\* self.handlers.store_document("file:///a.py", text)
HoverOpen(text) ==
    /\ transport.mode = "hover"
    /\ server.handlers._document_store = <<>>
    /\ io.called = ""
    /\ server' = [server EXCEPT
                    !.handlers = store_document(@, "file:///a.py", text)]
    /\ UNCHANGED <<exit_status, handled, last, transport, io>>

\* self._get_word_at_position(line, char), line a line of the document
GetWordAtPosition(n, char) ==
    /\ transport.mode = "hover"
    /\ io.called = ""
    /\ server.handlers._document_store # <<>>
    /\ LET lines == Split(server.handlers._document_store[1][2], "\n")
       IN  /\ n \in 1..Len(lines)
           /\ io' = [io EXCEPT !.called = "word", !.line = lines[n],
                               !.char = char,
                               !.word = _get_word_at_position(lines[n], char)]
    /\ UNCHANGED <<server, exit_status, handled, last, transport>>

\* self.handlers.handle_hover(uri, position), the backend's explain_code
\* answering explanation
HandleHover(uri, position, explanation) ==
    /\ transport.mode = "hover"
    /\ io.called = ""
    /\ LET r == handle_hover(server.handlers, uri, position,
                             [NoEnv EXCEPT !.explanation = explanation])
       IN  io' = [io EXCEPT !.called = "hover", !.uri = uri,
                            !.position = position,
                            !.explanation = explanation,
                            !.result = r.result, !.raised = r.raised]
    /\ UNCHANGED <<server, exit_status, handled, last, transport>>

NextHover ==
    \/ \E text \in HoverTexts : HoverOpen(text)
    \/ \E n \in 1..(MaxHoverText + 1), char \in HoverCharacters :
           GetWordAtPosition(n, char)
    \/ \E uri \in URIs, position \in HoverPositions,
          explanation \in HoverExplanations :
           HandleHover(uri, position, explanation)

SpecHover == InitHover /\ [][NextHover]_vars

(***************************************************************************)
(* SpecMain: main starts a driver and the process ends.  The environment   *)
(* can break the input stream (a read of stdin raises) and can hold the    *)
(* port (bind raises).  No peer connects to the TCP driver here.           *)
(* io.fatal (history) names the fatal error that has happened.             *)
(***************************************************************************)
MainTransport(driver) ==
    [mode |-> "main", driver |-> driver, _running |-> FALSE,
     start |-> "created"]
MainIO(port_free) ==
    [mode |-> "main", stdin |-> <<>>, stdin_open |-> TRUE,
     stdin_fails |-> FALSE, stdout |-> <<>>, frames |-> 0,
     port_free |-> port_free, fatal |-> ""]

\* main: --mode stdio | tcp
InitMain ==
    /\ InitServer
    /\ \E driver \in {"stdio", "tcp"} : transport = MainTransport(driver)
    /\ \E port_free \in BOOLEAN : io = MainIO(port_free)

\* the editor writes a frame to the server's stdin
MainStdinWrite(frame) ==
    /\ exit_status = None
    /\ transport.mode = "main" /\ transport.driver = "stdio"
    /\ io.stdin_open
    /\ io.frames < MaxFrames
    /\ io' = [io EXCEPT !.stdin = @ \o frame, !.frames = @ + 1]
    /\ UNCHANGED <<server, exit_status, handled, last, transport>>

\* the editor closes the server's stdin
MainStdinClose ==
    /\ exit_status = None
    /\ transport.mode = "main" /\ transport.driver = "stdio"
    /\ io.stdin_open
    /\ io' = [io EXCEPT !.stdin_open = FALSE]
    /\ UNCHANGED <<server, exit_status, handled, last, transport>>

\* the input stream breaks: from now on sys.stdin.readline() raises
MainStdinBreak ==
    /\ exit_status = None
    /\ transport.mode = "main" /\ transport.driver = "stdio"
    /\ ~io.stdin_fails
    /\ io' = [io EXCEPT !.stdin_fails = TRUE]
    /\ UNCHANGED <<server, exit_status, handled, last, transport>>

\* main: transport.start() up to the loop.  bind on a port that is held
\* raises OSError out of start; main logs it and calls sys.exit(1)
MainStart ==
    /\ exit_status = None
    /\ transport.mode = "main"
    /\ transport.start = "created"
    /\ IF transport.driver = "tcp" /\ ~io.port_free
       THEN /\ transport' = [transport EXCEPT !._running = TRUE,
                                              !.start = "raised"]
            /\ io' = [io EXCEPT !.fatal = "bind"]
            /\ exit_status' = Some(1)
       ELSE /\ transport' = [transport EXCEPT !._running = TRUE,
                                              !.start = "running"]
            /\ UNCHANGED <<io, exit_status>>
    /\ UNCHANGED <<server, handled, last>>

\* StdioTransport.start: one turn of the loop.  An exception of the read
\* is caught in _read_message, which returns None, and the loop breaks
MainStdioLoop ==
    /\ exit_status = None
    /\ transport.mode = "main" /\ transport.driver = "stdio"
    /\ transport.start = "running"
    /\ IF io.stdin_fails
       THEN /\ transport' = [transport EXCEPT !.start = "returned"]
            /\ io' = [io EXCEPT !.fatal = "read"]
            /\ UNCHANGED <<server, exit_status, handled, last>>
       ELSE
       LET rd == _read_message(io.stdin, io.stdin_open)
       IN  /\ ~rd.blocked
           /\ IF rd.message = None
              THEN /\ transport' = [transport EXCEPT !.start = "returned"]
                   /\ io' = [io EXCEPT !.stdin = rd.stdin]
                   /\ UNCHANGED <<server, exit_status, handled, last>>
              ELSE LET message == RequestOf(rd.message[1])
                       r == handle_request(server, message, NoEnv)
                   IN  /\ server' = r.self
                       /\ exit_status' = r.exit_status
                       /\ handled' = Handled(message, r)
                       /\ last' = LastCall(message, r)
                       /\ io' = [io EXCEPT
                                   !.stdin = rd.stdin,
                                   !.stdout = WriteResponse(@, r.response)]
                       /\ UNCHANGED transport

\* main: transport.start() has returned; main returns and the process
\* ends with status 0
MainReturn ==
    /\ exit_status = None
    /\ transport.mode = "main"
    /\ transport.start = "returned"
    /\ exit_status' = Some(0)
    /\ UNCHANGED <<server, handled, last, transport, io>>

NextMain ==
    \/ \E frame \in Frames : MainStdinWrite(frame)
    \/ MainStdinClose
    \/ MainStdinBreak
    \/ MainStart
    \/ MainStdioLoop
    \/ MainReturn

SpecMain == InitMain /\ [][NextMain]_vars

(***************************************************************************)
(* SpecClose: the control flow of TCPTransport._handle_client, one worker  *)
(* thread for each accepted connection.  What arrives on a connection is   *)
(* a sequence of chunks named by what the worker will meet in them; recv   *)
(* may also fail (the peer resets the connection) and sendall fails on a   *)
(* connection whose peer has gone.  A scheduler runs every worker that can *)
(* take a step: recv returns once bytes have arrived, the peer has closed  *)
(* or the connection was reset.                                            *)
(***************************************************************************)
MaxChunks == 2     \* chunks the peers send in one run

\* a frame of a request, of a notification, of a message whose handler
\* raises, of exit, and bytes _parse_message finds no message in
ChunkKinds == {"request", "notification", "raising", "exit", "malformed"}

NoCloseWorker == [pc |-> "none", buffer |-> <<>>, message |-> ""]
CloseSocket ==
    [state |-> "idle", inbox |-> <<>>, peer_open |-> TRUE, reset |-> FALSE,
     sent |-> 0, closed_by |-> 0]
CloseTransport ==
    [mode |-> "close", _running |-> TRUE,
     workers |-> [c \in Conns |-> NoCloseWorker]]
CloseIO ==
    [mode |-> "close", chunks |-> 0, sockets |-> [c \in Conns |-> CloseSocket]]

\* self._running = True; bind; listen
InitClose ==
    /\ InitServer
    /\ transport = CloseTransport
    /\ io = CloseIO

\* _handle_client without its finally clause: a SystemExit ends the thread
\* at once
_handle_client_unwind_no_finally(leaving) ==
    CASE leaving = "break" -> "finally"
      [] leaving = "Exception" -> "finally"
      [] leaving = "SystemExit" -> "ended"
\* _handle_client: where control goes when the try body is left
_handle_client_unwind(leaving) ==
    CASE leaving = "break" -> "finally"
      [] leaving = "Exception" -> "finally"
      [] leaving = "SystemExit" -> "finally"

\* what self.server.handle_request(message) does with a message of a kind
HandleOutcome(kind) ==
    CASE kind = "request" -> "response"
      [] kind = "notification" -> "None"
      [] kind = "raising" -> "Exception"
      [] kind = "exit" -> "SystemExit"

ClosePeerConnect(c) ==
    /\ io.mode = "close"
    /\ io.sockets[c].state = "idle"
    /\ io' = [io EXCEPT !.sockets[c].state = "backlog"]
    /\ UNCHANGED <<server, exit_status, handled, last, transport>>

ClosePeerSend(c, kind) ==
    /\ io.mode = "close"
    /\ io.sockets[c].state \in {"backlog", "open"}
    /\ io.sockets[c].peer_open
    /\ ~io.sockets[c].reset
    /\ io.chunks < MaxChunks
    /\ io' = [io EXCEPT !.sockets[c].inbox = Append(@, kind),
                        !.chunks = @ + 1]
    /\ UNCHANGED <<server, exit_status, handled, last, transport>>

ClosePeerClose(c) ==
    /\ io.mode = "close"
    /\ io.sockets[c].state \in {"backlog", "open"}
    /\ io.sockets[c].peer_open
    /\ io' = [io EXCEPT !.sockets[c].peer_open = FALSE]
    /\ UNCHANGED <<server, exit_status, handled, last, transport>>

\* the peer resets the connection: what had arrived is lost and recv raises
ClosePeerReset(c) ==
    /\ io.mode = "close"
    /\ io.sockets[c].state \in {"backlog", "open"}
    /\ io.sockets[c].peer_open
    /\ io' = [io EXCEPT !.sockets[c].peer_open = FALSE,
                        !.sockets[c].reset = TRUE,
                        !.sockets[c].inbox = <<>>]
    /\ UNCHANGED <<server, exit_status, handled, last, transport>>

\* TCPTransport.start: accept, and the worker's thread started; buffer = b""
CloseAccept(c) ==
    /\ transport.mode = "close"
    /\ transport._running
    /\ io.sockets[c].state = "backlog"
    /\ io' = [io EXCEPT !.sockets[c].state = "open"]
    /\ transport' = [transport EXCEPT !.workers[c] =
                        [NoCloseWorker EXCEPT !.pc = "recv"]]
    /\ UNCHANGED <<server, exit_status, handled, last>>

\* while self._running: data = client_socket.recv(4096);
\* if not data: break; buffer += data
ClientRecv(c) ==
    /\ transport.mode = "close"
    /\ transport.workers[c].pc = "recv"
    /\ LET socket == io.sockets[c]
       IN  /\ socket.inbox # <<>> \/ ~socket.peer_open
           /\ IF socket.reset
              THEN /\ transport' = [transport EXCEPT !.workers[c].pc =
                                        _handle_client_unwind("Exception")]
                   /\ io' = io
              ELSE IF socket.inbox = <<>>
              THEN /\ transport' = [transport EXCEPT !.workers[c].pc =
                                        _handle_client_unwind("break")]
                   /\ io' = io
              ELSE /\ transport' = [transport EXCEPT
                                      !.workers[c].buffer =
                                          Append(@, Head(socket.inbox)),
                                      !.workers[c].pc = "parse"]
                   /\ io' = [io EXCEPT !.sockets[c].inbox = Tail(@)]
    /\ UNCHANGED <<server, exit_status, handled, last>>

\* one turn of the inner loop: message, buffer = self._parse_message(buffer);
\* if message is None: break; response = self.server.handle_request(message);
\* if response: self._send_message(client_socket, response), which logs what
\* sendall raises; an Exception is logged by the except clause
ClientParse(c) ==
    /\ transport.mode = "close"
    /\ transport.workers[c].pc = "parse"
    /\ LET buffer == transport.workers[c].buffer
           outcome == HandleOutcome(Head(buffer))
       IN  IF buffer = <<>> \/ Head(buffer) = "malformed"
           THEN /\ transport' = [transport EXCEPT !.workers[c].pc = "recv"]
                /\ io' = io
           ELSE /\ transport' = [transport EXCEPT
                                   !.workers[c].buffer = Tail(buffer),
                                   !.workers[c].message = Head(buffer),
                                   !.workers[c].pc =
                                      IF outcome \in {"response", "None"}
                                      THEN "parse"
                                      ELSE _handle_client_unwind(outcome)]
                /\ io' = [io EXCEPT !.sockets[c].sent =
                            IF outcome = "response" /\ io.sockets[c].peer_open
                            THEN @ + 1 ELSE @]
    /\ UNCHANGED <<server, exit_status, handled, last>>

\* finally: client_socket.close()
ClientFinally(c) ==
    /\ transport.mode = "close"
    /\ transport.workers[c].pc = "finally"
    /\ transport' = [transport EXCEPT !.workers[c].pc = "ended"]
    /\ io' = [io EXCEPT !.sockets[c].state = "closed",
                        !.sockets[c].closed_by = c]
    /\ UNCHANGED <<server, exit_status, handled, last>>

\* a step of the worker of connection c
HandleClient(c) ==
    \/ ClientRecv(c)
    \/ ClientParse(c)
    \/ ClientFinally(c)

NextClose ==
    \/ \E c \in Conns : ClosePeerConnect(c)
    \/ \E c \in Conns, kind \in ChunkKinds : ClosePeerSend(c, kind)
    \/ \E c \in Conns : ClosePeerClose(c)
    \/ \E c \in Conns : ClosePeerReset(c)
    \/ \E c \in Conns : CloseAccept(c)
    \/ \E c \in Conns : HandleClient(c)

SpecClose ==
    /\ InitClose
    /\ [][NextClose]_vars
    /\ \A c \in Conns : WF_vars(HandleClient(c))

(***************************************************************************)
(* SpecSend: how a response reaches the stream.  _send_message makes two   *)
(* sendall calls on the connection's socket, the header and then the body; *)
(* _write_message makes two writes to sys.stdout and flushes it.  The      *)
(* stream holds the bytes a reader at its other end can see; the frames    *)
(* written here fit the buffer of sys.stdout, which passes them on at the  *)
(* flush.                                                                  *)
(***************************************************************************)
MaxSent == 2       \* responses sent in one run

SendResponses ==
    {<<<<"jsonrpc", "2.0">>, <<"id", "7">>, <<"result", "null">>>>,
     <<<<"jsonrpc", "2.0">>, <<"id", "0">>, <<"error", "{-32601}">>>>,
     <<<<"jsonrpc", "2.0">>, <<"id", "1">>, <<"result", "null">>>>}

SendTransport(driver) == [mode |-> "send", driver |-> driver, pc |-> "idle"]
\* responses (history): the responses handed to the sender
SendIO ==
    [mode |-> "send", stream |-> <<>>, buffer |-> <<>>, peer_open |-> TRUE,
     responses |-> <<>>]

InitSend ==
    /\ InitServer
    /\ transport \in {SendTransport("stdio"), SendTransport("tcp")}
    /\ io = SendIO

\* client_socket.sendall(data): the bytes are on the stream when it returns,
\* and it raises on a connection whose peer has gone
sendall(stream, data, peer_open) ==
    IF peer_open
    THEN [stream |-> stream \o data, raised |-> FALSE]
    ELSE [stream |-> stream, raised |-> TRUE]

\* the response being sent
Sending == io.responses[Len(io.responses)]
SendingContent == json_dumps(Sending)

\* _send_message: client_socket.sendall(header.encode("utf-8"))
SendHeader(message) ==
    /\ transport.mode = "send"
    /\ transport.driver = "tcp"
    /\ transport.pc = "idle"
    /\ Len(io.responses) < MaxSent
    /\ LET header == ContentLengthHeader(Len(json_dumps(message)))
           sent == sendall(io.stream, header, io.peer_open)
       IN  /\ io' = [io EXCEPT !.stream = sent.stream,
                               !.responses = Append(@, message)]
           \* except Exception as e: logger.error(...)
           /\ transport' = [transport EXCEPT !.pc =
                                IF sent.raised THEN "idle" ELSE "content"]
    /\ UNCHANGED <<server, exit_status, handled, last>>

\* _send_message: client_socket.sendall(content_bytes)
SendContent ==
    /\ transport.mode = "send"
    /\ transport.driver = "tcp"
    /\ transport.pc = "content"
    /\ io' = [io EXCEPT !.stream =
                            sendall(@, SendingContent, io.peer_open).stream]
    /\ transport' = [transport EXCEPT !.pc = "idle"]
    /\ UNCHANGED <<server, exit_status, handled, last>>

\* the peer of the connection goes away
SendPeerClose ==
    /\ transport.mode = "send"
    /\ transport.driver = "tcp"
    /\ io.peer_open
    /\ io' = [io EXCEPT !.peer_open = FALSE]
    /\ UNCHANGED <<server, exit_status, handled, last, transport>>

\* _write_message: sys.stdout.write(header)
WriteHeader(message) ==
    /\ transport.mode = "send"
    /\ transport.driver = "stdio"
    /\ transport.pc = "idle"
    /\ Len(io.responses) < MaxSent
    /\ io' = [io EXCEPT
                !.buffer = @ \o ContentLengthHeader(Len(json_dumps(message))),
                !.responses = Append(@, message)]
    /\ transport' = [transport EXCEPT !.pc = "content"]
    /\ UNCHANGED <<server, exit_status, handled, last>>

\* _write_message: sys.stdout.write(content)
WriteContent ==
    /\ transport.mode = "send"
    /\ transport.driver = "stdio"
    /\ transport.pc = "content"
    /\ io' = [io EXCEPT !.buffer = @ \o SendingContent]
    /\ transport' = [transport EXCEPT !.pc = "flush"]
    /\ UNCHANGED <<server, exit_status, handled, last>>

\* _write_message: sys.stdout.flush()
Flush ==
    /\ transport.mode = "send"
    /\ transport.driver = "stdio"
    /\ transport.pc = "flush"
    /\ io' = [io EXCEPT !.stream = @ \o io.buffer, !.buffer = <<>>]
    /\ transport' = [transport EXCEPT !.pc = "idle"]
    /\ UNCHANGED <<server, exit_status, handled, last>>

NextSend ==
    \/ \E message \in SendResponses : SendHeader(message)
    \/ SendContent
    \/ SendPeerClose
    \/ \E message \in SendResponses : WriteHeader(message)
    \/ WriteContent
    \/ Flush

SpecSend == InitSend /\ [][NextSend]_vars

(***************************************************************************)
(* SpecSummary: _extract_file_summary applied once to a document and a     *)
(* language.  The documents are every text of at most two lines over a     *)
(* small vocabulary of lines, runs of one line after a run of blank lines  *)
(* (lengths around the limits 10, 20, 30 and 100 of the code), and lines   *)
(* longer than 80 characters.                                              *)
(***************************************************************************)
MaxSummaryLines == 2     \* lines of the short documents

SummaryLanguages == {"python", "javascript", "typescript", "text", "markdown"}

SummaryVocabulary ==
    {<<>>, <<" ">>, <<"x">>,
     <<" ", "import ", "os", " ">>,
     <<"def ", "f()", ":", " ", "pass", ":">>,
     <<"class ", "C">>,
     <<"const ", "x">>}
RepeatedLines ==
    {<<"x">>, <<"import ", "os">>, <<"def ", "f()", ":">>, <<"const ", "x">>}
BlankRuns == {0, 12, 19, 20, 99, 100}
LineRuns == {1, 9, 10, 11, 21, 31}
LongLine(n) == [i \in 1..n |-> "x"]

\* n copies of line
Repeat(line, n) == [i \in 1..n |-> line]
ShortDocuments ==
    UNION {[1..n -> SummaryVocabulary] : n \in 1..MaxSummaryLines}
SummaryTexts ==
    {Join(d, "\n") : d \in ShortDocuments}
    \cup {Join(Repeat(<<>>, b) \o Repeat(line, k), "\n") :
            b \in BlankRuns, k \in LineRuns, line \in RepeatedLines}
    \cup {LongLine(80), LongLine(81), <<"const ">> \o LongLine(80),
          <<"x", "\n">> \o LongLine(85)}

SummaryTransport == [mode |-> "summary"]

InitSummary ==
    /\ server = LSPServer(None, DefaultContextLines)
    /\ exit_status = None
    /\ handled = {}
    /\ last = None
    /\ transport = SummaryTransport
    /\ \E text \in SummaryTexts, language \in SummaryLanguages :
           io = [mode |-> "summary", called |-> FALSE, text |-> text,
                 language |-> language, result |-> EmptyStr]

\* summary = self._extract_file_summary(text, language)
ExtractFileSummary ==
    /\ transport.mode = "summary"
    /\ ~io.called
    /\ io' = [io EXCEPT !.called = TRUE,
                        !.result = _extract_file_summary(io.text, io.language)]
    /\ UNCHANGED <<server, exit_status, handled, last, transport>>

NextSummary == ExtractFileSummary

SpecSummary == InitSummary /\ [][NextSummary]_vars

(***************************************************************************)
(* SpecDecoders: one stream of frames read by both decoders.  The peer     *)
(* writes frames as the protocol has them, Content-Length being the number *)
(* of bytes of the UTF-8 body.  sys.stdin is a text stream: it decodes the *)
(* bytes as they arrive and _read_message reads characters from it; the    *)
(* connection worker keeps the bytes and _parse_message slices them.       *)
(***************************************************************************)
MaxWritten == 2    \* frames the peer writes in one run

\* text.encode("utf-8")
encode(text) ==
    Concat([i \in 1..Len(text) |->
                IF text[i] = "e-acute" THEN <<"0xC3", "0xA9">>
                ELSE <<text[i]>>])

\* the frame of a message as a peer writes it
PeerFrame(message) ==
    LET content_bytes == encode(json_dumps(message))
    IN  ContentLengthHeader(Len(content_bytes)) \o content_bytes

\* messages in ASCII, and messages with a character of two bytes
DecoderMessages ==
    {<<<<"method", "shutdown">>, <<"id", "7">>>>,
     <<<<"method", "exit">>>>,
     <<<<"method", "initialized">>, <<"params", "{}">>>>,
     <<<<"method", "e-acute">>>>,
     <<<<"method", "textDocument/didOpen">>, <<"params", "e-acute">>>>}

DecodersTransport ==
    [mode |-> "decoders",
     stdio |-> [loop |-> "running", messages |-> <<>>],
     tcp |-> [buffer |-> <<>>, messages |-> <<>>]]
\* written (history): the messages of the frames written
DecodersIO ==
    [mode |-> "decoders", stdin |-> <<>>, open |-> TRUE, written |-> <<>>]

InitDecoders ==
    /\ InitServer
    /\ transport = DecodersTransport
    /\ io = DecodersIO

\* the peer writes a frame: its characters are in sys.stdin and its bytes
\* are received into the worker's buffer
DecodersWrite(message) ==
    /\ io.mode = "decoders"
    /\ io.open
    /\ Len(io.written) < MaxWritten
    /\ io' = [io EXCEPT !.stdin = @ \o decode(PeerFrame(message)).value,
                        !.written = Append(@, message)]
    /\ transport' = [transport EXCEPT !.tcp.buffer = @ \o PeerFrame(message)]
    /\ UNCHANGED <<server, exit_status, handled, last>>

\* the peer closes the stream
DecodersClose ==
    /\ io.mode = "decoders"
    /\ io.open
    /\ io' = [io EXCEPT !.open = FALSE]
    /\ UNCHANGED <<server, exit_status, handled, last, transport>>

\* StdioTransport.start: message = self._read_message();
\* if message is None: break
StdioRead ==
    /\ transport.mode = "decoders"
    /\ transport.stdio.loop = "running"
    /\ LET rd == _read_message(io.stdin, io.open)
       IN  /\ ~rd.blocked
           /\ io' = [io EXCEPT !.stdin = rd.stdin]
           /\ transport' =
                IF rd.message = None
                THEN [transport EXCEPT !.stdio.loop = "ended"]
                ELSE [transport EXCEPT !.stdio.messages =
                                            Append(@, rd.message[1])]
    /\ UNCHANGED <<server, exit_status, handled, last>>

\* _handle_client: message, buffer = self._parse_message(buffer), a message
\* being there
TCPParse ==
    /\ transport.mode = "decoders"
    /\ LET p == _parse_message(transport.tcp.buffer)
       IN  /\ p.message # None
           /\ transport' = [transport EXCEPT
                                !.tcp.buffer = p.buffer,
                                !.tcp.messages = Append(@, p.message[1])]
    /\ UNCHANGED <<server, exit_status, handled, last, io>>

NextDecoders ==
    \/ \E message \in DecoderMessages : DecodersWrite(message)
    \/ DecodersClose
    \/ StdioRead
    \/ TCPParse

SpecDecoders == InitDecoders /\ [][NextDecoders]_vars

(***************************************************************************)
(* Properties                                                              *)
(***************************************************************************)
\* the methods handle_request answers when the message carries an id
AnsweredMethods ==
    {"initialize", "shutdown", "textDocument/completion",
     "textDocument/hover", "gopilot/agent"}
DocumentMethods ==
    {"textDocument/didOpen", "textDocument/didChange",
     "textDocument/didSave", "textDocument/didClose"}
\* the methods handle_request never answers
SilentMethods == {"initialized", "$/cancelRequest"} \cup DocumentMethods
RecognizedMethods == AnsweredMethods \cup SilentMethods \cup {"exit"}

\* the response of call c is one response that echoes the id of its request
EchoesId(c) == c.response # None /\ c.response[1].id = c.request.id[1]

\* C1 as stated: every message that carries an id, other than exit, whose
\* handler does not raise results in one response with the message's id,
\* whatever its method.
C1_EveryIdAnswered ==
    last # None =>
        LET c == last[1]
        IN  (c.request.id # None /\ c.request.method # "exit"
             /\ c.outcome = "return")
            => EchoesId(c)

\* C1 amended: a message that carries an id (0 included) and whose method is
\* initialize, shutdown, completion, hover, gopilot/agent or an unrecognized
\* method results in exactly one response with the message's id, provided
\* its handler does not raise; initialized, the document-sync methods and
\* $/cancelRequest result in no response even with an id.
C1_RequestIdEchoed ==
    last # None =>
        LET c == last[1]
        IN  (c.request.id # None /\ c.request.method # "exit"
             /\ c.outcome = "return")
            => IF c.request.method \in SilentMethods
               THEN c.response = None
               ELSE EchoesId(c)

C1_Witness ==
    /\ last # None
    /\ last[1].request.method = "shutdown"
    /\ last[1].request.id = Some(7)
    /\ last[1].response # None
    /\ last[1].response[1].id = 7

\* C3: an unrecognized method with an id is answered by the error -32601
\* with the same id and no result member, without an id by nothing; the
\* document store and the lifecycle flags stay as they were.
C3_UnknownMethod ==
    [][(last' # None /\ last'[1].request.method \notin RecognizedMethods)
       => /\ server' = server
          /\ exit_status' = exit_status
          /\ LET c == last'[1]
             IN  IF c.request.id = None THEN c.response = None
                 ELSE /\ EchoesId(c)
                      /\ DOMAIN c.response[1] = {"jsonrpc", "id", "error"}
                      /\ c.response[1].error.code = -32601]_vars

C3_Witness ==
    /\ last # None
    /\ last[1].request.method = "foo/bar"
    /\ last[1].request.id = Some(7)
    /\ last[1].response # None
    /\ last[1].response[1].error.code = -32601
    /\ server.handlers._document_store # <<>>
    /\ server._initialized

\* the text get_document gives for every URI
StoredTexts(self) == [u \in URIs |-> get_document(self.handlers, u)]

\* the reference map after a document notification
RefStep(m, request) ==
    LET p == request.params[1]
        u == p.textDocument[1].uri[1]
    IN  CASE request.method = "textDocument/didOpen" ->
                [m EXCEPT ![u] = Some(Get(p.textDocument[1].text, EmptyStr))]
          [] request.method = "textDocument/didChange" ->
                IF p.contentChanges = None \/ p.contentChanges = Some(<<>>)
                THEN m
                ELSE LET cc == p.contentChanges[1]
                     IN  [m EXCEPT ![u] = Some(Get(cc[Len(cc)].text, EmptyStr))]
          [] request.method = "textDocument/didSave" ->
                IF p.text = None THEN m ELSE [m EXCEPT ![u] = p.text]
          [] request.method = "textDocument/didClose" ->
                [m EXCEPT ![u] = None]

\* C4: each document notification changes the stored texts as it changes
\* the reference map, get_document gives the map's text or not-found, and
\* the store has at most one entry per URI.
C4_StoreFollowsReference ==
    [][(last' # None /\ last'[1].request.method \in DocumentMethods
        /\ last'[1].outcome = "return")
       => /\ StoredTexts(server') = RefStep(StoredTexts(server), last'[1].request)
          /\ Cardinality(DictKeys(server'.handlers._document_store))
                = Len(server'.handlers._document_store)]_vars

C4_Witness ==
    /\ last # None
    /\ last[1].request.method = "textDocument/didChange"
    /\ last[1].request.params[1].contentChanges
          = Some(<<[text |-> Some(<<"x">>)], [text |-> Some(<<"y">>)]>>)
    /\ last[1].request.params[1].textDocument[1].uri = Some("file:///a.py")
    /\ get_document(server.handlers, "file:///a.py") = Some(<<"y">>)
    /\ get_document(server.handlers, "file:///b.js") = Some(<<"x">>)

\* request is a document notification for URI u
IsDocumentMessageFor(request, u) ==
    /\ request.method \in DocumentMethods
    /\ request.params # None
    /\ ParamsUri(request.params[1]) = u

\* C5 as stated: a stored document stays in the store with its text until a
\* didClose for its URI; no message other than a document notification
\* for that URI removes or alters it.
C5_DocumentKeptUntilClose ==
    [][\A u \in URIs :
        (/\ get_document(server.handlers, u) # None
         /\ last' # None
         /\ ~IsDocumentMessageFor(last'[1].request, u))
        => get_document(server'.handlers, u)
              = get_document(server.handlers, u)]_vars

\* C6: the status exit requests is 0 if a shutdown was handled before and 1
\* otherwise; shutdown sets the flag and its result is null.
C6_ExitStatus ==
    /\ exit_status # None =>
          exit_status[1] = (IF "shutdown" \in handled THEN 0 ELSE 1)
    /\ (last # None /\ last[1].request.method = "shutdown") =>
          /\ server._shutdown_requested
          /\ last[1].request.id # None =>
                /\ EchoesId(last[1])
                /\ last[1].response[1].result = None

C6_Witness ==
    /\ exit_status = Some(0)
    /\ "shutdown" \in handled
    /\ last[1].request.method = "exit"

\* the messages the driver has passed to handle_request, and has written
Dispatched(t) ==
    IF t.mode = "stdio" THEN <<t.dispatched>>
    ELSE [c \in Conns |-> t.workers[c].dispatched]
Written(i) ==
    IF i.mode = "stdio" THEN <<i.stdout>>
    ELSE [c \in Conns |-> i.sockets[c].sent]
\* this step passes a message to handle_request
Dispatches == Dispatched(transport') # Dispatched(transport)

\* C2: a driver that dispatches a message without an id, whatever its
\* method and whether or not its handler raises, gets no response from
\* handle_request and writes nothing to any peer.
C2_NotificationNeverAnswered ==
    [][(Dispatches /\ last'[1].request.id = None)
       => /\ last'[1].response = None
          /\ Written(io') = Written(io)]_vars

C2_Witness ==
    /\ transport.mode = "stdio"
    /\ transport.loop = "running"
    /\ transport.dispatched = 2
    /\ last # None
    /\ last[1].request.method = "textDocument/completion"
    /\ last[1].request.id = None
    /\ last[1].outcome = "raise"
    /\ Len(io.stdout) = 1
    /\ io.stdout[1].id = 7

\* C7 as stated: under the TCP driver, once an exit has been handled the
\* accept loop starts no further worker and no worker dispatches a message.
C7_ExitEndsProcess ==
    [][(transport.mode = "tcp" /\ "exit" \in handled)
       => /\ ~Dispatches
          /\ \A c \in Conns :
                transport.workers[c].pc = "none"
                => transport'.workers[c].pc = "none"]_vars

\* the loop, or the worker, that dispatches in this step goes on afterwards
DispatcherGoesOn ==
    IF transport.mode = "stdio" THEN transport'.loop = "running"
    ELSE \A c \in Conns :
            transport'.workers[c].dispatched # transport.workers[c].dispatched
            => transport'.workers[c].pc = "parse"

\* C8 as stated: when the handler of a request with an id raises, the driver
\* writes a JSON-RPC error object with that id to the caller and goes on
\* with the frames that follow.
C8_HandlerErrorAnswered ==
    [][(Dispatches /\ last'[1].outcome = "raise" /\ last'[1].request.id # None)
       => /\ DispatcherGoesOn
          /\ \E k \in 1..Len(Written(io')) :
                LET before == Written(io)[k]
                    after == Written(io')[k]
                IN  /\ Len(after) = Len(before) + 1
                    /\ "error" \in DOMAIN after[Len(after)]
                    /\ after[Len(after)].id = last'[1].request.id[1]]_vars

\* s starts with prefix
StartsWith(s, prefix) ==
    Len(prefix) <= Len(s) /\ SubSeq(s, 1, Len(prefix)) = prefix

\* C9 as stated: under the TCP driver a malformed frame is dropped: when a
\* worker goes back to recv, no malformed frame is at the head of its buffer.
C9_MalformedFrameDropped ==
    transport.mode = "tcp" =>
        \A c \in Conns :
            transport.workers[c].pc = "recv"
            => \A frame \in MalformedFrames :
                  ~StartsWith(transport.workers[c].buffer, frame)

\* C10 as stated: the stdio loop ends only when stdin is at its end: no
\* frame, whatever its body or Content-Length, ends it.
C10_LoopEndsOnlyAtEOF ==
    [][(transport.mode = "stdio" /\ transport.loop = "running"
        /\ transport'.loop = "ended")
       => (io.stdin = <<>> /\ ~io.stdin_open)]_vars

\* the frames of the objects ms, one after the other
RECURSIVE EncodedStream(_)
EncodedStream(ms) ==
    IF ms = <<>> THEN <<>>
    ELSE ContentLengthHeader(Len(json_dumps(Head(ms)))) \o json_dumps(Head(ms))
         \o EncodedStream(Tail(ms))

\* C11: the bytes the encoder produces for an object (Content-Length = the
\* body's length, CRLF CRLF, body) decode to an equal object with nothing
\* left over, and the encodings of m1 and m2 one after the other decode to
\* m1, then m2.
C11_RoundTrip ==
    io.mode = "framing" =>
        LET n == Len(transport.decoded)
            pending == SubSeq(io.encoded, n + 1, Len(io.encoded))
        IN  /\ n <= Len(io.encoded)
            /\ transport.decoded = SubSeq(io.encoded, 1, n)
            /\ io.wire = EncodedStream(pending)
            /\ pending = <<>> => io.wire = <<>>
            /\ pending # <<>> =>
                  _parse_message(io.wire)
                     = [message |-> Some(Head(pending)),
                        buffer |-> EncodedStream(Tail(pending))]

C11_Witness ==
    /\ io.mode = "framing"
    /\ Len(io.encoded) = 2
    /\ Len(json_dumps(io.encoded[1])) = 13
    /\ io.encoded[2] # io.encoded[1]
    /\ transport.decoded = io.encoded
    /\ io.wire = <<>>

\* the bytes of the frames fs, one after the other
RECURSIVE Flatten(_)
Flatten(fs) == IF fs = <<>> THEN <<>> ELSE Head(fs) \o Flatten(Tail(fs))

\* the message of a frame that is decoded on its own
MessageOf(frame) == RequestOf(_parse_message(frame).message[1])

\* this step dispatches a message of connection c
DispatchesOn(c) ==
    transport'.workers[c].dispatched # transport.workers[c].dispatched

\* however the bytes are split into reads: a running worker's buffer and
\* the bytes still to be read are the frames not yet dispatched, a message
\* that is dispatched is the message of the oldest of these frames, and a
\* parse that finds no complete frame leaves the buffer as it is
SplitReadsReassembled ==
    \A c \in Conns :
        /\ transport'.workers[c].pc \in {"recv", "parse"}
           => transport'.workers[c].buffer \o io'.sockets[c].inbox
                 = Flatten(io'.sockets[c].in_flight)
        /\ DispatchesOn(c)
           => /\ io.sockets[c].in_flight # <<>>
              /\ last'[1].request = MessageOf(Head(io.sockets[c].in_flight))
        /\ (transport.workers[c].pc = "parse" /\ ~DispatchesOn(c))
           => transport'.workers[c].buffer = transport.workers[c].buffer

\* C12 as stated: under the TCP driver, however the bytes of well-formed
\* frames are split into reads, the messages dispatched are the frames'
\* messages in their order, an incomplete frame stays in the buffer, and
\* no frame is left undispatched when the worker ends (other than by exit).
C12_SplitReadsDispatchFrames ==
    [][/\ SplitReadsReassembled
       /\ \A c \in Conns :
            (transport'.workers[c].pc = "ended" /\ "exit" \notin handled')
            => io'.sockets[c].in_flight = <<>>]_vars

\* the part of C12 that does not depend on a worker going on after a
\* handler has raised
C12_Reassembly == [][SplitReadsReassembled]_vars

\* C13: within one connection the message dispatched is the message of the
\* oldest frame not yet dispatched (stdio: of the oldest unread bytes of
\* stdin), a step dispatches one message of one connection, and the
\* response to it is written in that step after every earlier response of
\* the connection, so before the next message of the connection is
\* dispatched; nothing else writes to a peer.
C13_DispatchedInArrivalOrder ==
    [][/\ (transport.mode = "stdio" /\ Dispatches)
          => LET consumed == SubSeq(io.stdin, 1,
                                    Len(io.stdin) - Len(io'.stdin))
             IN  /\ transport'.dispatched = transport.dispatched + 1
                 /\ io.stdin = consumed \o io'.stdin
                 /\ last'[1].request = MessageOf(consumed)
                 /\ io'.stdout =
                       IF last'[1].response # None
                       THEN Append(io.stdout, last'[1].response[1])
                       ELSE io.stdout
       /\ transport.mode = "tcp"
          => \A c \in Conns :
                IF DispatchesOn(c)
                THEN /\ transport'.workers[c].dispatched
                           = transport.workers[c].dispatched + 1
                     /\ io.sockets[c].in_flight # <<>>
                     /\ last'[1].request
                           = MessageOf(Head(io.sockets[c].in_flight))
                     /\ io'.sockets[c].sent =
                           IF last'[1].response # None
                           THEN Append(io.sockets[c].sent,
                                       last'[1].response[1])
                           ELSE io.sockets[c].sent
                     /\ \A d \in Conns \ {c} : ~DispatchesOn(d)
                ELSE io'.sockets[c].sent = io.sockets[c].sent
       /\ ~Dispatches => Written(io') = Written(io)]_vars

\* a connection on which two requests were dispatched and answered
C13_Witness ==
    /\ transport.mode = "tcp"
    /\ \E c \in Conns :
          /\ transport.workers[c].dispatched = 2
          /\ Len(io.sockets[c].sent) = 2
          /\ io.sockets[c].sent[1].id = 7
          /\ io.sockets[c].sent[2].id = 0

\* the document stores of all LSPHandlers objects, in a state
Stores(s, t) ==
    [i \in 1..(Len(t.retired) + 1) |->
        IF i = Len(t.retired) + 1 THEN s.handlers._document_store
        ELSE t.retired[i]._document_store]

\* C14 as stated: while a worker's completion enumerates the open
\* documents, no step of another worker stores or removes a document or
\* replaces the store.
C14_EnumerationNotInterleaved ==
    [][\A c \in Conns :
          (/\ transport.workers[c].pc = "iter"
           /\ transport'.workers[c] = transport.workers[c])
          => Stores(server', transport') = Stores(server, transport)]_vars

\* C15 as stated: remove_document never fails, also when two workers
\* handle didClose for one URI at once.
C15_RemoveNeverFails ==
    \A c \in Conns :
        ~(transport.workers[c].pc = "raised"
          /\ transport.workers[c].error = "KeyError")

\* the last call was textDocument/completion with params that is an object
LastCompletion ==
    /\ last # None
    /\ last[1].request.method = "textDocument/completion"
    /\ Get(last[1].request.params, EmptyParams).isDict
LastUri == ParamsUri(Get(last[1].request.params, EmptyParams))
LastPosition == ParamsPosition(Get(last[1].request.params, EmptyParams))
\* the response to the last call is a result holding items
LastItemsAre(items) ==
    /\ last[1].response # None
    /\ "result" \in DOMAIN last[1].response[1]
    /\ last[1].response[1].result
          = Some([isIncomplete |-> FALSE, items |-> items])

\* C16: completion for a URI that is not in the document store returns,
\* whatever the position, with no call to the backend or to the repository
\* lister, and a request is answered with a result holding no items.
C16_AbsentUriGivesNoItems ==
    (LastCompletion
     /\ LastUri \notin DictKeys(server.handlers._document_store))
    => /\ last[1].outcome = "return"
       /\ io.calls = <<>>
       /\ last[1].request.id # None => LastItemsAre(<<>>)

\* a request for a closed URI, with a position that is no object, while
\* another document is open, a repository is bound and the backend would
\* answer
C16_Witness ==
    /\ LastCompletion
    /\ LastUri = "file:///a.py"
    /\ DictKeys(server.handlers._document_store) = {"file:///b.js"}
    /\ server.handlers.git_context # None
    /\ ~LastPosition.isDict
    /\ io.completion = Some(<<"y">>)
    /\ last[1].request.id # None
    /\ LastItemsAre(<<>>)

\* the backend was asked and what it answered is, once cleaned, a text
Usable(completion) ==
    /\ completion # None
    /\ completion # Some(EmptyStr)
    /\ strip(_clean_completion(completion[1])) # EmptyStr
\* the response the claim describes for the last call
DescribedItems ==
    IF "complete_code" \in {io.calls[i] : i \in 1..Len(io.calls)}
       /\ Usable(io.completion)
    THEN LastItemsAre(<<CompletionItem(_clean_completion(io.completion[1]))>>)
    ELSE LastItemsAre(<<>>)

\* C17 as stated: a completion request for a stored document is answered
\* with a result: no items when the backend gives nothing or the cleaned
\* completion is blank, otherwise one item whose insertText is the cleaned
\* completion.
C17_StoredDocumentCompletion ==
    (LastCompletion
     /\ last[1].request.id # None
     /\ LastUri \in DictKeys(server.handlers._document_store))
    => /\ last[1].outcome = "return"
       /\ DescribedItems

\* the same for positions that are objects with a line that is not negative
C17_WithLinePosition ==
    (LastCompletion
     /\ last[1].request.id # None
     /\ LastUri \in DictKeys(server.handlers._document_store)
     /\ LastPosition.isDict
     /\ PositionLine(LastPosition) >= 0)
    => /\ last[1].outcome = "return"
       /\ DescribedItems

\* the last call was a request for method that returned
LastAnswered(method) ==
    /\ last # None
    /\ last[1].request.method = method
    /\ last[1].request.id # None
    /\ last[1].outcome = "return"
\* the workspace root the server is bound to lies in a git repository
RootInRepository == is_git_repo(server.git_context)

\* C18 as stated: the response to an initialize request advertises the
\* six agent actions exactly when the workspace root in force after the
\* request lies in a git repository.
C18_AgentAdvertisedIffRepository ==
    LastAnswered("initialize")
    => LET info == last[1].response[1].result[1].serverInfo
       IN  /\ "agentCapabilities" \in DOMAIN info <=> RootInRepository
           /\ "agentCapabilities" \in DOMAIN info
              => info.agentCapabilities.actions = AgentActions

NotAvailable == [error |-> "Agent not available (not a git repository)"]

\* C19 as stated: a gopilot/agent request goes to the agent exactly when
\* the workspace root the server is bound to lies in a git repository;
\* otherwise the answer is a result holding the error, under the
\* request's id; and the agent works on the repository that is bound for
\* project scope.
C19_AgentFollowsWorkspaceRoot ==
    LastAnswered("gopilot/agent")
    => LET response == last[1].response[1]
       IN  /\ "result" \in DOMAIN response
           /\ response.id = last[1].request.id[1]
           /\ response.result = Some(NotAvailable) <=> ~RootInRepository
           /\ response.result # Some(NotAvailable)
              => server.handlers.git_context = Some(server.agent[1].git)

\* the collaborators called in the last call of handle_agent_request
Called == {io.calls[i] : i \in 1..Len(io.calls)}

GenerateCalls ==
    SelectSeq(io.calls, LAMBDA call : call[1] = "generate")

\* C21: review_changes without a base branch reviews the staged diff when
\* there is one and otherwise the working-tree diff; with neither it
\* returns "No changes detected to review." and does not call the backend;
\* with a diff it calls the backend once, with that diff, and returns the
\* backend's answer.
C21_ReviewUsesStagedThenWorking ==
    (io.mode = "review" /\ io.called /\ NoText(io.base_branch))
    => LET diff == IF ~NoText(io.git.staged) THEN io.git.staged
                   ELSE io.git.working
       IN  IF NoText(diff)
           THEN /\ io.text = Some(<<"No changes detected to review.">>)
                /\ GenerateCalls = <<>>
           ELSE /\ Len(GenerateCalls) = 1
                /\ GenerateCalls[1][2] =
                      <<"Review this diff:", "\n", Fence, "diff", "\n">>
                      \o diff[1] \o <<"\n", Fence>>
                /\ io.text = io.answer

\* staged and working-tree diffs that differ: the staged one is reviewed
C21_Witness ==
    /\ io.mode = "review"
    /\ io.called
    /\ io.base_branch = None
    /\ io.git.staged = Some(<<"s">>)
    /\ io.git.working = Some(<<"w">>)
    /\ io.text = Some(<<"y">>)
    /\ Len(GenerateCalls) = 1
    /\ Contains(GenerateCalls[1][2], "s")

\* C22 as stated: the initialized flag becomes true only in a session in
\* which an initialize request was handled before the initialized
\* notification that sets it.
C22_InitializedOnlyAfterInitialize ==
    [][(~server._initialized /\ server'._initialized)
       => "initialize" \in handled]_vars

\* what holds: the flag is set by the initialized notification and by
\* nothing else, and is never cleared
C22_SetByInitializedNotification ==
    [][/\ server._initialized => server'._initialized
       /\ (~server._initialized /\ server'._initialized)
          => last'[1].request.method = "initialized"]_vars

\* the window of the last call of _build_local_scope
ScopeCalled == io.mode = "scope" /\ io.called
ScopeWindow == server.handlers.context_lines
\* lines i..j of the document (0-based, both included) that exist
LinesBetween(i, j) ==
    LET first == IF i < 0 THEN 0 ELSE i
        last_line == IF j > Len(io.lines) - 1 THEN Len(io.lines) - 1 ELSE j
    IN  IF first > last_line THEN <<>>
        ELSE [k \in 1..(last_line - first + 1) |-> io.lines[first + k]]

\* C23: with the cursor line at or past the number of lines, local-scope
\* extraction raises nothing, the cursor prefix and the after-text are
\* empty, and the before-text is the lines of the document inside
\* [max(0, line - W), line) joined by newlines (empty when no line is).
C23_LinePastEnd ==
    (ScopeCalled /\ io.line_num >= Len(io.lines))
    => /\ ~io.raised
       /\ io.cursor_prefix = EmptyStr
       /\ io.code_after = EmptyStr
       /\ io.code_before =
              Join(LinesBetween(io.line_num - ScopeWindow, io.line_num - 1),
                   "\n")

\* line 3 of a two-line document with window 2: the last line of the
\* document is inside the window
C23_Witness ==
    /\ ScopeCalled
    /\ ScopeWindow = 2
    /\ Len(io.lines) = 2
    /\ io.line_num = 3
    /\ io.lines[2] = <<"b">>
    /\ io.code_before = <<"b">>

\* the last call was on the document "def add(a, b):" / "    return a",
\* cursor line 1, window 50
AddScenario ==
    /\ ScopeCalled
    /\ io.lines = Split(AddDocument, "\n")
    /\ io.line_num = 1
    /\ ScopeWindow = 50
ReturnA == <<" ", " ", " ", " ", "r", "e", "t", "u", "r", "n", " ", "a">>

\* C24 as stated: in that scenario with the cursor at character 11, the
\* before-text is the whole document, the after-text is empty and the
\* cursor prefix is "    return a".
C24_Character11IsEndOfLine ==
    (AddScenario /\ io.char_num = 11)
    => /\ io.code_before = AddDocument
       /\ io.code_after = EmptyStr
       /\ io.cursor_prefix = ReturnA

\* C24: the line "    return a" has 12 characters.  With the cursor at
\* character 12 the before-text is the whole document, the after-text is
\* empty and the cursor prefix is "    return a"; at character 11 the
\* cursor prefix is "    return ", the before-text is the document
\* without its last character and the after-text is "a".
C24_AddScenario ==
    AddScenario
    => /\ io.char_num = 12
          => /\ io.code_before = AddDocument
             /\ io.code_after = EmptyStr
             /\ io.cursor_prefix = ReturnA
       /\ io.char_num = 11
          => /\ io.code_before = SubSeq(AddDocument, 1, Len(AddDocument) - 1)
             /\ io.code_after = <<"a">>
             /\ io.cursor_prefix = SubSeq(ReturnA, 1, 11)

C24_Witness ==
    /\ AddScenario
    /\ io.char_num = 11
    /\ io.code_after = <<"a">>
    /\ io.cursor_prefix = <<" ", " ", " ", " ", "r", "e", "t", "u", "r", "n", " ">>

\* the cursor line of the last call and the cursor's place in it
CursorLine == io.lines[io.line_num + 1]
CursorAt == IF io.char_num > Len(CursorLine) THEN Len(CursorLine)
            ELSE io.char_num
\* the last call was on a document of n numbered lines
Numbered == \E n \in 1..MaxLines : io.lines = Split(NumberedDocument(n), "\n")

\* C25: with the cursor line L inside the document and character c >= 0,
\* the cursor prefix is the first c characters of line L (the whole line
\* when c exceeds its length), the before-text is lines max(0, L-W)..L-1
\* followed by the prefix, the after-text is the rest of line L followed by
\* lines L+1..min(last, L+W), no line outside [L-W, L+W] appears in either
\* text, and before-text and after-text together are the window's lines
\* joined by newlines.
C25_CursorInsideDocument ==
    (/\ ScopeCalled
     /\ io.line_num >= 0 /\ io.line_num < Len(io.lines)
     /\ io.char_num >= 0)
    => /\ ~io.raised
       /\ io.cursor_prefix = SubSeq(CursorLine, 1, CursorAt)
       /\ io.code_before =
              Join(Append(LinesBetween(io.line_num - ScopeWindow,
                                       io.line_num - 1),
                          io.cursor_prefix), "\n")
       /\ io.code_after =
              Join(<<SubSeq(CursorLine, CursorAt + 1, Len(CursorLine))>>
                   \o LinesBetween(io.line_num + 1,
                                   io.line_num + ScopeWindow), "\n")
       /\ Numbered
          => \A i \in 0..(Len(io.lines) - 1) :
                 (i < io.line_num - ScopeWindow
                  \/ i > io.line_num + ScopeWindow)
                 => ~Contains(io.code_before \o io.code_after,
                              DigitSymbols[i + 1])
       /\ io.code_before \o io.code_after =
              Join(LinesBetween(io.line_num - ScopeWindow,
                                io.line_num + ScopeWindow), "\n")

\* six numbered lines, cursor on line 3 after its one character, window 1:
\* lines 2..4 are used, lines 0, 1 and 5 are not
C25_Witness ==
    /\ ScopeCalled
    /\ io.lines = Split(NumberedDocument(6), "\n")
    /\ io.line_num = 3
    /\ io.char_num = 1
    /\ ScopeWindow = 1
    /\ io.code_before = <<"2", "\n", "3">>
    /\ io.code_after = <<"\n", "4">>

\* the text sub occurs in the text s
Occurs(sub, s) ==
    \E i \in 1..(Len(s) - Len(sub) + 1) :
        SubSeq(s, i, i + Len(sub) - 1) = sub
\* the open documents other than the current one, in the order of the store
OtherTabs ==
    SelectSeq(server.handlers._document_store,
              LAMBDA item : item[1] # io.current_uri)
\* the section lines of the last secondary context
SectionLines ==
    SelectSeq(Split(io.result, "\n"),
              LAMBDA line : line # <<>> /\ Head(line) = "--- ")
\* the path of a URI
PathOf(uri) == SelectSeq(uri, LAMBDA token : token # "file://")
\* with fewer than two documents open the context is empty; with two or
\* more it starts with the header and has one section per open document
\* other than the current one, naming its path, in the order of the store
SecondaryContextSections ==
    IF Len(server.handlers._document_store) < 2
    THEN io.result = EmptyStr
    ELSE /\ io.result # EmptyStr
         /\ Head(io.result) = OpenTabsHeader
         /\ Len(SectionLines) = Len(OtherTabs)
         /\ \A i \in 1..Len(OtherTabs) :
                /\ Len(SectionLines[i]) >= 4
                /\ SubSeq(SectionLines[i], 2, Len(SectionLines[i]) - 3)
                       = PathOf(OtherTabs[i][1])

\* C26 as stated: the secondary context is empty with fewer than two
\* documents open; otherwise it starts with the header, has one section per
\* open document other than the active one naming its path, and the active
\* document's path occurs nowhere in it.
C26_ActivePathNowhere ==
    (io.mode = "tabs" /\ io.called)
    => /\ SecondaryContextSections
       /\ ~Occurs(PathOf(io.current_uri), io.result)

\* C26: the secondary context is empty with fewer than two documents open;
\* otherwise it starts with the header and has one section per open
\* document other than the active one, naming its path, and none for the
\* active document.
C26_SecondaryContext ==
    (io.mode = "tabs" /\ io.called) => SecondaryContextSections

\* three documents open, the active one among them: two sections
C26_Witness ==
    /\ io.mode = "tabs"
    /\ io.called
    /\ Len(server.handlers._document_store) = 3
    /\ io.current_uri \in DictKeys(server.handlers._document_store)
    /\ Len(SectionLines) = 2
    /\ ~Occurs(PathOf(io.current_uri), io.result)

\* the entries listed in the last project scope: the header and the
\* entries are single tokens, one newline after each but the last
ListedFiles ==
    [i \in 1..((Len(io.result) - 1) \div 2) |-> <<io.result[2 * i + 1]>>]

C28_CleanIdempotent ==
    (io.mode = "clean" /\ io.cleanings = 2) => io.text = io.before

\* what holds: a cleaned completion has no blank first or last line
C28_NoBlankEnds ==
    (io.mode = "clean" /\ io.cleanings >= 1 /\ io.text # EmptyStr)
    => LET lines == Split(io.text, "\n")
       IN  /\ strip(lines[1]) # EmptyStr
           /\ strip(lines[Len(lines)]) # EmptyStr

\* word is the maximal run of word characters of line that contains or
\* touches position c
MaximalRunAt(word, line, c) ==
    \E i \in 0..c, j \in c..Len(line) :
        /\ word = SubSeq(line, i + 1, j)
        /\ \A k \in (i + 1)..j : IsWordChar(line[k])
        /\ i = 0 \/ ~IsWordChar(line[i])
        /\ j = Len(line) \/ ~IsWordChar(line[j + 1])
\* no word is at position c of line
NoWordAt(line, c) ==
    \/ line = EmptyStr \/ c < 0 \/ c > Len(line)
    \/ /\ c = 0 \/ ~IsWordChar(line[c])
       /\ c = Len(line) \/ ~IsWordChar(line[c + 1])
\* the document, lines and position of the last hover request
HoverDocument == get_document(server.handlers, io.uri)
HoverMissing == HoverDocument = None \/ HoverDocument = Some(EmptyStr)
HoverDocumentLines == Split(HoverDocument[1], "\n")
HoverLine == Get(io.position.line, 0)
HoverCharacter == Get(io.position.character, 0)
NoExplanation == io.explanation = None \/ io.explanation = Some(EmptyStr)

\* C29: for 0 <= c <= len(line) the hover word is the maximal run of word
\* characters that contains or touches c, and it is empty for c < 0,
\* c > len(line) or an empty line; "result = add(1, 2)" with c = 9 gives
\* "add".  Hover returns no result, and raises nothing, for a missing
\* document, a line past the end, an empty word or no backend answer; a
\* result that is returned has the range from character 0 of the cursor
\* line to its length.
C29_HoverWord ==
    /\ (io.mode = "hover" /\ io.called = "word")
       => /\ IF io.line = EmptyStr \/ io.char < 0 \/ io.char > Len(io.line)
             THEN io.word = EmptyStr
             ELSE /\ MaximalRunAt(io.word, io.line, io.char)
                  /\ io.word = EmptyStr <=> NoWordAt(io.line, io.char)
          /\ (io.line = ResultLine /\ io.char = 9)
             => io.word = <<"a", "d", "d">>
    /\ (io.mode = "hover" /\ io.called = "hover")
       => /\ HoverMissing => (io.result = None /\ ~io.raised)
          /\ (~HoverMissing /\ io.position.isDict
              /\ HoverLine >= Len(HoverDocumentLines))
             => (io.result = None /\ ~io.raised)
          /\ (~HoverMissing /\ io.position.isDict
              /\ HoverLine >= 0 /\ HoverLine < Len(HoverDocumentLines))
             => LET line == HoverDocumentLines[HoverLine + 1]
                IN  /\ ~io.raised
                    /\ IF NoWordAt(line, HoverCharacter) \/ NoExplanation
                       THEN io.result = None
                       ELSE /\ io.result # None
                            /\ io.result[1].range =
                                 [start |-> [line |-> HoverLine,
                                             character |-> 0],
                                  end |-> [line |-> HoverLine,
                                           character |-> Len(line)]]
          /\ io.result # None
             => /\ io.result[1].range.start =
                      [line |-> HoverLine, character |-> 0]
                /\ io.result[1].range.end.line = HoverLine

\* the scenario: character 9 of "result = add(1, 2)" gives "add"
C29_Witness ==
    /\ io.mode = "hover"
    /\ io.called = "word"
    /\ io.line = ResultLine
    /\ io.char = 9
    /\ io.word = <<"a", "d", "d">>

\* C30 as stated: after a fatal error, a read of the input stream that
\* raises under the stdio driver or a bind that fails under the TCP
\* driver, the process ends with a non-zero status.
C30_FatalErrorsExitNonZero ==
    (io.mode = "main" /\ io.fatal # "" /\ exit_status # None)
    => exit_status[1] # 0

\* what holds: a bind that fails ends the process with status 1
C30_BindFailureExitsOne ==
    (io.mode = "main" /\ io.fatal = "bind") => exit_status = Some(1)

\* the connection loop of c's worker is bound to end: the peer has closed or
\* reset the connection, or the worker has left the try body
LoopEnds(c) ==
    /\ transport.mode = "close"
    /\ io.sockets[c].state = "open"
    /\ \/ ~io.sockets[c].peer_open
       \/ transport.workers[c].pc = "finally"
ClosedByWorker(c) ==
    /\ io.sockets[c].state = "closed"
    /\ io.sockets[c].closed_by = c
    /\ transport.workers[c].pc = "ended"

\* C31: an accepted connection whose loop ends (the peer closed or reset it,
\* a handler raised, or exit was handled on it) has its socket closed by its
\* own worker in the end, and no worker ends with its socket open.
C31_SocketClosedByWorker ==
    /\ [](\A c \in Conns :
            transport.mode = "close" /\ transport.workers[c].pc = "ended"
                => ClosedByWorker(c))
    /\ \A c \in Conns : LoopEnds(c) ~> ClosedByWorker(c)
\* exit was handled on connection 1, whose peer is still there, and its
\* worker has closed the socket
C31_Witness ==
    /\ transport.mode = "close"
    /\ ClosedByWorker(1)
    /\ io.sockets[1].peer_open
    /\ transport.workers[1].message = "exit"

\* the frames of the first n responses handed to the sender, one after
\* another
RECURSIVE FramesOf(_, _)
FramesOf(responses, n) ==
    IF n = 0 THEN <<>>
    ELSE FramesOf(responses, n - 1) \o _send_message(responses[n])
IsPrefix(s, t) == Len(s) <= Len(t) /\ s = SubSeq(t, 1, Len(s))

\* C32: what a reader of the stream can see is at every moment a whole
\* number of frames, each header with its body.
C32_FrameInOneSend ==
    io.mode = "send"
        => \E n \in 0..Len(io.responses) :
               io.stream = FramesOf(io.responses, n)
\* the part of C32 that holds: the first bytes of a frame follow the last of
\* the frame before it, and a frame sys.stdout passes on at the flush
\* arrives whole
C32_FramesNotInterleaved ==
    io.mode = "send"
        => /\ IsPrefix(io.stream, FramesOf(io.responses, Len(io.responses)))
           /\ transport.driver = "stdio"
                => \E n \in 0..Len(io.responses) :
                       io.stream = FramesOf(io.responses, n)

SummaryCalled == io.mode = "summary" /\ io.called
DocumentLines == Split(io.text, "\n")
FirstLines(n) ==
    SubSeq(DocumentLines, 1,
           IF Len(DocumentLines) < n THEN Len(DocumentLines) ELSE n)
NonBlank(lines) == SelectSeq(lines, LAMBDA line : strip(line) # <<>>)
First(lines, n) == SubSeq(lines, 1, IF Len(lines) < n THEN Len(lines) ELSE n)
\* each line stripped and cut to 80 characters
Cut80(lines) ==
    [i \in 1..Len(lines) |-> SubSeq(strip(lines[i]), 1,
        IF Len(strip(lines[i])) < 80 THEN Len(strip(lines[i])) ELSE 80)]
\* the lines of a summary
SummaryLines == IF io.result = <<>> THEN <<>> ELSE Split(io.result, "\n")

\* C33: for a language other than python, javascript and typescript the
\* summary is the first 20 non-blank lines of the document, each stripped and
\* cut to 80 characters, in document order.
C33_First20NonBlank ==
    SummaryCalled /\ io.language \notin {"python", "javascript", "typescript"}
        => SummaryLines = Cut80(First(NonBlank(DocumentLines), 20))
\* what holds instead: the summary is the first 10 of the non-blank lines
\* found among the first 20 lines of the document
C33_First10AmongFirst20Lines ==
    SummaryCalled /\ io.language \notin {"python", "javascript", "typescript"}
        => SummaryLines = Cut80(First(NonBlank(FirstLines(20)), 10))

Positions(n) == [i \in 1..n |-> i]
StrippedLine(i) == strip(DocumentLines[i])
BeginsWith(i, words) == StrippedLine(i) # <<>> /\ StrippedLine(i)[1] \in words
\* line i (from 1) is an import line among the first 100 lines
IsImport(i) == i <= 100 /\ BeginsWith(i, {"import ", "from "})
\* line i is a signature line, with a colon to cut it at
IsSignature(i) ==
    /\ ~IsImport(i)
    /\ BeginsWith(i, {"def ", "class ", "async def "})
    /\ \E k \in 1..Len(StrippedLine(i)) : StrippedLine(i)[k] = ":"
UpToFirstColon(s) ==
    SubSeq(s, 1, CHOOSE k \in 1..Len(s) :
                    s[k] = ":" /\ \A j \in 1..(k - 1) : s[j] # ":")
PythonStructure ==
    LET kept == SelectSeq(Positions(Len(DocumentLines)),
                          LAMBDA i : IsImport(i) \/ IsSignature(i))
    IN  [k \in 1..Len(kept) |->
            IF IsImport(kept[k]) THEN StrippedLine(kept[k])
            ELSE UpToFirstColon(StrippedLine(kept[k]))]
ScriptStructure ==
    LET kept == SelectSeq(Positions(Len(FirstLines(100))),
                    LAMBDA i : BeginsWith(i, {"import ", "export ", "const ",
                                              "let ", "var "}))
    IN  Cut80([k \in 1..Len(kept) |-> DocumentLines[kept[k]]])
StructureOf(language) ==
    IF language = "python" THEN PythonStructure ELSE ScriptStructure

\* C34: a summary has at most 30 lines; for python it is the import and from
\* lines among the first 100 lines and the def, class and async def lines of
\* the whole file cut after their first colon, in document order, and for
\* javascript and typescript the import, export, const, let and var lines
\* among the first 100 lines, each cut to 80 characters.
C34_StructuralSummary ==
    SummaryCalled
        => /\ Len(SummaryLines) <= 30
           /\ io.language \in {"python", "javascript", "typescript"}
                => SummaryLines = First(StructureOf(io.language), 30)
\* what holds instead: at most 30 lines, and the structural lines when the
\* document has any; a python, javascript or typescript document without
\* one is summarised like a document of any other language
C34_StructureOrFallback ==
    SummaryCalled
        => /\ Len(SummaryLines) <= 30
           /\ io.language \in {"python", "javascript", "typescript"}
                => SummaryLines =
                     IF StructureOf(io.language) # <<>>
                     THEN First(StructureOf(io.language), 30)
                     ELSE Cut80(First(NonBlank(FirstLines(20)), 10))

\* neither decoder can go on with what has been written
DecodersIdle ==
    /\ transport.mode = "decoders"
    /\ _parse_message(transport.tcp.buffer).message = None
    /\ \/ transport.stdio.loop = "ended"
       \/ _read_message(io.stdin, io.open).blocked
AsciiOnly(messages) ==
    \A i \in 1..Len(messages) : encode(json_dumps(messages[i]))
                                    = json_dumps(messages[i])

\* C35: when both decoders have read what they can of a stream of frames,
\* they have yielded the same messages, those written, in order.
C35_DecodersAgree ==
    DecodersIdle /\ io.written # <<>>
        => /\ transport.stdio.messages = transport.tcp.messages
           /\ transport.tcp.messages = io.written
\* what holds: _parse_message takes the declared bytes of every frame, and
\* the two decoders agree on frames whose body is ASCII
C35_ByteDecoderAndAsciiAgree ==
    DecodersIdle
        => /\ transport.tcp.messages = io.written
           /\ transport.tcp.buffer = <<>>
           /\ AsciiOnly(io.written) /\ io.written # <<>>
                => transport.stdio.messages = io.written

\* the bytes a running worker has and has still to read are those of the
\* frames its own peer sent and that are not yet dispatched
OwnBytes(c) ==
    transport.workers[c].pc \in {"recv", "parse"}
        => transport.workers[c].buffer \o io.sockets[c].inbox
              = Flatten(io.sockets[c].in_flight)
\* in this step something is written to the socket of c: it is the response
\* to the oldest request of c not yet dispatched, written by the worker of c
AnswersOwnRequest(c) ==
    /\ transport.workers[c].pc = "parse"
    /\ io.sockets[c].in_flight # <<>>
    /\ MessageOf(Head(io.sockets[c].in_flight)).id # None
    /\ \E response \in {io'.sockets[c].sent[Len(io'.sockets[c].sent)]} :
          /\ io'.sockets[c].sent = Append(io.sockets[c].sent, response)
          /\ response.id = MessageOf(Head(io.sockets[c].in_flight)).id[1]
\* in this step the buffer of c changes: its worker has received bytes of
\* its own socket or taken a message off the front
OwnBufferStep(c) ==
    LET buffer == transport.workers[c].buffer
        after == transport'.workers[c].buffer
        taken == Len(io.sockets[c].inbox) - Len(io'.sockets[c].inbox)
    IN  \/ /\ transport.workers[c].pc = "recv"
           /\ after = buffer \o SubSeq(io.sockets[c].inbox, 1, taken)
        \/ /\ transport.workers[c].pc = "parse"
           /\ after = SubSeq(buffer, Len(buffer) - Len(after) + 1, Len(buffer))
        \/ transport.workers[c].pc = "none"

\* C36: with several connections in any interleaving, a response is written
\* only to the socket its request arrived on, a connection's buffer is read
\* and changed by its own worker only, and the bytes of one connection never
\* get into the buffer of another.
C36_ConnectionsIsolated ==
    /\ [](transport.mode = "tcp" => \A c \in Conns : OwnBytes(c))
    /\ [][transport.mode = "tcp"
          => \A c \in Conns :
                /\ io'.sockets[c].sent # io.sockets[c].sent
                   => /\ AnswersOwnRequest(c)
                      /\ \A d \in Conns \ {c} :
                            io'.sockets[d].sent = io.sockets[d].sent
                /\ transport'.workers[c].buffer # transport.workers[c].buffer
                   => /\ OwnBufferStep(c)
                      /\ \A d \in Conns \ {c} :
                            transport'.workers[d] = transport.workers[d]]_vars
\* two connections, each answered its own request while the other has bytes
\* in its buffer or was answered too
C36_Witness ==
    /\ transport.mode = "tcp"
    /\ Len(io.sockets[1].sent) = 1
    /\ Len(io.sockets[2].sent) = 1
    /\ io.sockets[1].sent[1].id = 7
    /\ io.sockets[2].sent[1].id = 0

\* the calls of the caller of Spec but for exit: a message and what the
\* collaborators answer
CallsOf(requests, envs) ==
    {[request |-> request, env |-> env] : request \in requests, env \in envs}
NonExitCalls ==
    CallsOf(InitializeRequests \cup InitializedRequests \cup ShutdownRequests
            \cup DidOpenRequests \cup DidChangeRequests \cup DidSaveRequests
            \cup DidCloseRequests \cup CancelRequests \cup UnknownRequests,
            {NoEnv})
    \cup CallsOf(CompletionRequests,
                 {[NoEnv EXCEPT !.completion = answer] :
                     answer \in BackendAnswers})
    \cup CallsOf(HoverRequests,
                 {[NoEnv EXCEPT !.explanation = answer] :
                     answer \in BackendAnswers})
    \cup CallsOf(AgentRequests, AgentAnswers)
\* the server with other values of its two flags
WithFlags(self, initialized, shutdown_requested) ==
    [self EXCEPT !._initialized = initialized,
                 !._shutdown_requested = shutdown_requested]

\* C37: in every state, a message other than exit gets the same response,
\* ends the same way and leaves the same document store whatever the values
\* of the initialized flag and the shutdown flag.
C37_FlagsDoNotAffectDispatch ==
    transport.mode = "none"
        => \A call \in NonExitCalls, initialized \in BOOLEAN,
              shutdown_requested \in BOOLEAN :
              LET here == handle_request(server, call.request, call.env)
                  there == handle_request(
                              WithFlags(server, initialized,
                                        shutdown_requested),
                              call.request, call.env)
              IN  /\ there.response = here.response
                  /\ there.outcome = here.outcome
                  /\ there.self.handlers = here.self.handlers
\* a document was opened after shutdown and before any initialized
C37_Witness ==
    /\ transport.mode = "none"
    /\ server._shutdown_requested
    /\ ~server._initialized
    /\ last # None
    /\ last[1].request.method = "textDocument/didOpen"
    /\ last[1].outcome = "return"
    /\ server.handlers._document_store # <<>>

\* the message handled in this step
Handling == last'[1].request
DocumentNotifications ==
    {"textDocument/didOpen", "textDocument/didChange", "textDocument/didSave",
     "textDocument/didClose"}
StoreReaders ==
    {"textDocument/completion", "textDocument/hover", "gopilot/agent",
     "shutdown", "initialized", "$/cancelRequest"}
\* the URI a document notification is about
HandlingUri ==
    IF Handling.params = None THEN ""
    ELSE IF ~Handling.params[1].isDict THEN ""
    ELSE ParamsUri(Handling.params[1])
\* the documents of every URI but uri are as they were
OthersUnchanged(uri) ==
    \A other \in (DictKeys(server.handlers._document_store)
                  \cup DictKeys(server'.handlers._document_store)) \ {uri} :
        DictGet(server'.handlers._document_store, other)
            = DictGet(server.handlers._document_store, other)

\* C38: a document notification for a URI leaves the documents of all other
\* URIs as they are; completion, hover, gopilot/agent, shutdown, initialized
\* and $/cancelRequest leave the document store as it is; $/cancelRequest
\* changes nothing and has no response; the initialized flag changes in a
\* step of initialized only and the shutdown flag in a step of shutdown only.
C38_DispatcherFrame ==
    [][transport.mode = "none"
       => /\ Handling.method \in DocumentNotifications
             => OthersUnchanged(HandlingUri)
          /\ Handling.method \in StoreReaders
             => server'.handlers = server.handlers
          /\ Handling.method = "$/cancelRequest"
             => /\ server' = server
                /\ exit_status' = exit_status
                /\ handled' = handled
                /\ last'[1].response = None
                /\ last'[1].outcome = "return"
          /\ server'._initialized # server._initialized
             => Handling.method = "initialized"
          /\ server'._shutdown_requested # server._shutdown_requested
             => Handling.method = "shutdown"]_vars
\* one of two open documents was closed and the other is still stored
C38_Witness ==
    /\ transport.mode = "none"
    /\ last # None
    /\ last[1].request.method = "textDocument/didClose"
    /\ \E u \in URIs :
          /\ last[1].request.params = Some([EmptyParams EXCEPT
                                        !.textDocument = TextDocument(u, None)])
          /\ DictKeys(server.handlers._document_store) = URIs \ {u}

\* C39: under both drivers and on whichever connection a message arrives,
\* no step takes the initialized flag or the shutdown flag from true to
\* false.
C39_FlagsMonotonic ==
    [][/\ server._initialized => server'._initialized
       /\ server._shutdown_requested => server'._shutdown_requested]_vars
\* shutdown was handled on one connection and a later initialize on the
\* other, and the shutdown flag is still set
C39_Witness ==
    /\ transport.mode = "tcp"
    /\ transport.workers[1].dispatched = 1
    /\ transport.workers[2].dispatched = 1
    /\ "shutdown" \in handled
    /\ last # None
    /\ last[1].request.method = "initialize"
    /\ last[1].outcome = "return"
    /\ server._shutdown_requested

====
